---- MODULE Spec2Model ----
(***************************************************************************)
(* Rebuild orchestrator of the cultural-events search API.                 *)
(*                                                                         *)
(* One server process (src/api/main.py) holds the in-memory serving index  *)
(* and the rebuild-status singleton.  POST /rebuild schedules the          *)
(* coroutine run_rebuild_pipeline, which launches update_pipeline.py as a  *)
(* subprocess; that script runs archival, the two fetch scripts, dedup,    *)
(* curation and pipeline.py (chunking, delete, build, save, metadata).     *)
(* Every segment of code between two await points, and every step of the   *)
(* subprocess, is one action.                                              *)
(***************************************************************************)
EXTENDS Integers, Sequences, FiniteSets, TLC

\* ---------------------------------------------------------------- bounds
\* rebuilds that can be scheduled
MaxRuns == 2

\* clock ticks per second: Python and MongoDB keep sub-second time, the
\* formats "%Y-%m-%dT%H:%M:%S.000Z" and "%Y%m%d_%H%M%S" keep whole seconds
TicksPerSecond == 2

\* the clock starts on the last tick of a second and runs into the next
FirstTick == 2 * TicksPerSecond - 1

MaxClock == 2 * TicksPerSecond

\* ------------------------------------------------------ program constants
MIN_DESCRIPTION_LENGTH == 100

\* None for a date or a count (Python's None)
NoTime == -1

TaskIds == 1..MaxRuns
AgendaUIDs == {1}

\* ------------------------------------------------------------- variables
VARIABLES
  clock,                \* datetime.now(), in ticks
  rebuild_in_progress,  \* main.py global flag
  rebuild_status,       \* main.py global dict
  vector_store,         \* main.py global: the in-memory serving index
  ntasks,               \* number of background tasks added so far
  task,                 \* task id -> position of run_rebuild_pipeline
  local,                \* local variables of the run that started last
  snap,                 \* the stores as they were when that run started
  proc,                 \* the update_pipeline.py subprocess of that run
  disk_index,           \* the directory FAISS_INDEX_PATH
  last_update,          \* MongoDB collection last_update (run metadata)
  agendas,              \* MongoDB collection agendas
  events,               \* MongoDB collection events
  backups,              \* MongoDB backup collections (renamed collections)
  response              \* the HTTP response, when the last step was a request

vars == <<clock, rebuild_in_progress, rebuild_status, vector_store, ntasks,
          task, local, snap, proc, disk_index, last_update, agendas, events,
          backups, response>>

\* ------------------------------------------------------------ data shapes
\* A FAISS index: the run that built it and the events its chunks come from.
NoIndex == [build |-> -1, docs |-> {}]

EventKey(e) == <<e.uid, e.agendaUid>>

\* the long description upstream gives an event: uid 2 has a short one
DescriptionOf(u) ==
  IF u = 2 THEN MIN_DESCRIPTION_LENGTH - 1 ELSE MIN_DESCRIPTION_LENGTH

\* the events agenda a can return at time t: event 1 unchanged since time 0
\* or updated at t, event 2 created at t
UpstreamEvents(a, t) ==
  { [uid |-> 1, agendaUid |-> a, createdAt |-> 0, updatedAt |-> u,
     longDescription |-> DescriptionOf(1)] : u \in {0, t} }
  \cup
  { [uid |-> 2, agendaUid |-> a, createdAt |-> t, updatedAt |-> t,
     longDescription |-> DescriptionOf(2)] }

\* a page of the upstream API: empty, or one record
Pages(a, t) == {{}} \cup { {e} : e \in UpstreamEvents(a, t) }

Max(S) == CHOOSE x \in S : \A y \in S : y <= x

\* ------------------------------------------------------- pure functions
\* run_date.strftime("%Y-%m-%dT%H:%M:%S.000Z")
strftime(d) == (d \div TicksPerSecond) * TicksPerSecond

\* variant: the sort is ascending, the oldest record gives the date
get_last_execution_date_oldest(coll) ==
  IF coll = <<>>
    THEN NoTime
    ELSE strftime(CHOOSE d \in { coll[k].pipeline_run_date : k \in 1..Len(coll) } :
                    \A k \in 1..Len(coll) : d <= coll[k].pipeline_run_date)

\* find_one({}, sort=[("pipeline_run_date", -1)]) and the formatting of its
\* date; NoTime when the collection holds no record
get_last_execution_date(coll) ==
  IF coll = <<>>
    THEN NoTime
    ELSE strftime(Max({ coll[k].pipeline_run_date : k \in 1..Len(coll) }))

\* count_documents({"$or": [createdAt >= W, updatedAt >= W]})
count_new_events(evs, W) ==
  Cardinality({ e \in evs : e.createdAt >= W \/ e.updatedAt >= W })

\* the test that cancels the rebuild
\* variant: the short-circuit is never taken
no_new_events_never(count) == FALSE

no_new_events(count) == count = 0

\* a field that a document does not have, and a field whose value is null
Missing == -2

Null == -1

\* "if created_at:" and "if updated_at:": a date that is absent or null is
\* not compared
has_date(d) == d \notin {Missing, Null}

\* variant: only the date of update is compared
should_include_event_updated_only(e, date_filter) ==
  IF date_filter = NoTime
    THEN TRUE
    ELSE has_date(e.updatedAt) /\ e.updatedAt >= date_filter

\* should_include_event of get_corpus_events.py
should_include_event(e, date_filter) ==
  IF date_filter = NoTime
    THEN TRUE
    ELSE \/ has_date(e.createdAt) /\ e.createdAt >= date_filter
         \/ has_date(e.updatedAt) /\ e.updatedAt >= date_filter

\* the documents of a collection in their natural order: every order in
\* which a scan can return them
Orders(S) ==
  { s \in [1..Cardinality(S) -> S] : \A x \in S : \E k \in DOMAIN s : s[k] = x }

\* the documents of a page in the order of the response
SetToSeq(S) == CHOOSE s \in Orders(S) : TRUE

\* variant: every update also moves the updatedAt of the stored document
set_fields_stamps(doc, event) ==
  [uid |-> event.uid, agendaUid |-> event.agendaUid,
   createdAt |-> event.createdAt,
   updatedAt |-> doc.updatedAt + 1,
   longDescription |-> IF event.longDescription = Missing
                         THEN doc.longDescription ELSE event.longDescription]

\* "$set": the fields of the event replace those of the stored document, a
\* field the event does not have is left as stored
set_fields(doc, event) ==
  [uid |-> event.uid, agendaUid |-> event.agendaUid,
   createdAt |-> event.createdAt,
   updatedAt |-> IF event.updatedAt = Missing
                   THEN doc.updatedAt ELSE event.updatedAt,
   longDescription |-> IF event.longDescription = Missing
                         THEN doc.longDescription ELSE event.longDescription]

\* variant: the filter of the upsert is the uid alone
UpdateOne_by_uid(evs, event) ==
  LET matching == { d \in evs : d.uid = event.uid }
  IN IF matching = {}
       THEN evs \cup {event}
       ELSE LET doc == CHOOSE d \in matching : TRUE
            IN (evs \ {doc}) \cup {set_fields(doc, event)}

\* UpdateOne({"uid": ..., "agendaUid": ...}, {"$set": event}, upsert=True):
\* one matching document is updated, without a match the event is inserted
UpdateOne(evs, event) ==
  LET matching == { d \in evs : EventKey(d) = EventKey(event) }
  IN IF matching = {}
       THEN evs \cup {event}
       ELSE LET doc == CHOOSE d \in matching : TRUE
            IN (evs \ {doc}) \cup {set_fields(doc, event)}

\* collection.bulk_write(operations): the operations in their order
RECURSIVE bulk_write(_, _)
bulk_write(evs, operations) ==
  IF operations = <<>>
    THEN evs
    ELSE bulk_write(UpdateOne(evs, Head(operations)), Tail(operations))

\* the upsert of one page of events of get_corpus_events.py
upsert_events(evs, page) == bulk_write(evs, page)

\* "ids": {"$push": "$_id"} of the group of a uid
pushed_ids(docs, uid) == SelectSeq(docs, LAMBDA d : d.uid = uid)

\* "updatedAts": {"$push": "$updatedAt"}: a document without the field
\* pushes nothing, a null is pushed
pushed_updatedAts(docs, uid) ==
  LET having == SelectSeq(docs, LAMBDA d : d.uid = uid /\ d.updatedAt # Missing)
  IN [k \in DOMAIN having |-> having[k].updatedAt]

\* find_duplicates: the groups of the uids that more than one document has
find_duplicates(docs) ==
  LET uids == { docs[k].uid : k \in DOMAIN docs }
  IN { [uid |-> u, ids |-> pushed_ids(docs, u),
        updatedAts |-> pushed_updatedAts(docs, u)] :
       u \in { v \in uids : Len(pushed_ids(docs, v)) > 1 } }

\* list(zip(ids, updated_ats)): as long as the shorter of the two
zip(ids, updated_ats) ==
  LET n == IF Len(ids) < Len(updated_ats) THEN Len(ids) ELSE Len(updated_ats)
  IN [k \in 1..n |-> <<ids[k], updated_ats[k]>>]

\* key=lambda x: x[1] if x[1] else "": a null sorts as the empty string,
\* below every timestamp, as Null is below every date here
sort_key(pair) == pair[2]

\* id_date_pairs.sort(..., reverse=True) and id_date_pairs[0]: the position
\* of the pair that the stable sort puts first, the first of those with the
\* greatest key
kept_position(id_date_pairs) ==
  CHOOSE k \in DOMAIN id_date_pairs :
    \A j \in DOMAIN id_date_pairs :
      \/ sort_key(id_date_pairs[j]) < sort_key(id_date_pairs[k])
      \/ sort_key(id_date_pairs[j]) = sort_key(id_date_pairs[k]) /\ j >= k

\* id_date_pairs[1:] after the sort: the documents to delete of one group
ids_to_delete(group) ==
  LET id_date_pairs == zip(group.ids, group.updatedAts)
  IN { id_date_pairs[k][1] :
         k \in DOMAIN id_date_pairs \ {kept_position(id_date_pairs)} }

\* deduplicate_events with dry_run false on the documents in natural order:
\* id_date_pairs[0] raises IndexError for a group without any pair, before
\* anything is deleted; otherwise one delete_many of all the ids to delete
deduplicate_events(docs) ==
  LET evs == { docs[k] : k \in DOMAIN docs }
      duplicates == find_duplicates(docs)
  IN IF \E g \in duplicates : zip(g.ids, g.updatedAts) = <<>>
       THEN [raised |-> TRUE, events |-> evs]
       ELSE [raised |-> FALSE,
             events |-> evs \ UNION { ids_to_delete(g) : g \in duplicates }]

\* variant: the comparison with min_length is not strict
is_short_inclusive(e, min_length) ==
  /\ e.longDescription \notin {Missing, Null, 0}
  /\ e.longDescription <= min_length

\* {"$exists": False}, {"$eq": None}, {"$eq": ""}
without_description(e) == e.longDescription \in {Missing, Null, 0}

\* the aggregation: a description that exists, is not null and not empty,
\* with $strLenCP < min_length
is_short(e, min_length) ==
  /\ e.longDescription \notin {Missing, Null, 0}
  /\ e.longDescription < min_length

\* clean_events with dry_run false: the two delete_many
clean_events(evs, min_length) ==
  LET events_without_description == { e \in evs : without_description(e) }
      events_short_description == { e \in evs : is_short(e, min_length) }
  IN IF events_without_description \cup events_short_description = {}
       THEN evs
       ELSE (evs \ events_without_description) \ events_short_description

\* variant: the collection is read with a limit of one document
process_events_to_chunks_limited(evs) ==
  IF evs = {} THEN {} ELSE {EventKey(CHOOSE e \in evs : TRUE)}

\* process_events_to_chunks: every event yields at least one chunk, which
\* carries the key of its event
process_events_to_chunks(evs) == { EventKey(e) : e \in evs }

\* "if not chunks: raise ValueError" of create_vector_store_pipeline
\* variant: the validation of the chunks is skipped
chunks_always_valid(chunks) == TRUE

chunks_valid(chunks) == chunks # {}

\* load_vector_store: raises when the path is missing or the files are not
\* a complete index, or when FAISS.load_local fails
load_vector_store(disk, load_ok) ==
  IF disk.state = "complete" /\ load_ok
    THEN [raised |-> FALSE, value |-> disk.index]
    ELSE [raised |-> TRUE, value |-> NoIndex]

\* "vector_store = load_vector_store(...)" inside try: the global is
\* assigned only when the call returns
\* variant: the global is assigned whatever the load produced
reloaded_store_unchecked(old, loaded) == loaded.value

\* variant: the global is never reassigned
reloaded_store_stale(old, loaded) == old

reloaded_store(old, loaded) ==
  IF loaded.raised THEN old ELSE loaded.value

\* the status the reload leaves
\* variant: the handler of a failed reload leaves the status as it is
reload_status_running(loaded) == IF loaded.raised THEN "running" ELSE "success"

\* variant: the status of a run that reloaded the index is not updated
reload_status_unset(loaded) ==
  IF loaded.raised THEN "success_with_warning" ELSE "running"

\* variant: a failed reload is reported like a failed pipeline
reload_status_error(loaded) == IF loaded.raised THEN "error" ELSE "success"

reload_status(loaded) ==
  IF loaded.raised THEN "success_with_warning" ELSE "success"

\* ---------------------------------------------------------- initial state
\* The API has started: the index directory holds a complete index, which
\* startup_event loaded.  The stores are as an earlier full run, or a manual
\* run of the fetch scripts, may have left them.
InitialIndex == [build |-> 0, docs |-> {<<1, 1>>}]

InitialEvent(s) ==
  [uid |-> 1, agendaUid |-> 1, createdAt |-> s, updatedAt |-> s,
   longDescription |-> DescriptionOf(1)]

InitialRun ==
  [pipeline_run_date |-> FirstTick, agendas_updated_at_gte |-> 0,
   total_events_processed |-> 1, total_chunks_created |-> 1]

NoResponse ==
  [endpoint |-> "none", status |-> "", message |-> <<"", "">>,
   last_update_date |-> NoTime, started_at |-> NoTime, in_progress |-> FALSE,
   index |-> NoIndex]

NoLocal ==
  [owner |-> 0, last_update_date |-> NoTime, new_events_count |-> NoTime,
   returncode |-> NoTime, stderr |-> "", reload |-> "none"]

NoProc ==
  [pc |-> "none", returncode |-> NoTime, stderr |-> "", watermark |-> NoTime,
   chunks |-> {}, built |-> NoIndex, ran |-> {}]

Snapshot ==
  [disk_index |-> disk_index, vector_store |-> vector_store,
   last_update |-> last_update, agendas |-> agendas, events |-> events,
   backups |-> backups]

Init ==
  /\ clock = FirstTick
  /\ rebuild_in_progress = FALSE
  /\ rebuild_status =
       [status |-> "idle", message |-> <<"Aucun rebuild en cours", "">>,
        started_at |-> NoTime, last_update_date |-> NoTime]
  /\ vector_store = InitialIndex
  /\ disk_index = [state |-> "complete", index |-> InitialIndex]
  /\ ntasks = 0
  /\ task = [i \in TaskIds |-> "unborn"]
  /\ local = NoLocal
  /\ proc = NoProc
  /\ last_update \in {<<>>, <<InitialRun>>}
  /\ agendas = {1}
  /\ events \in {{InitialEvent(0)}, {InitialEvent(TicksPerSecond)}}
  /\ backups = [agendas |-> {}, events |-> {}]
  /\ snap = Snapshot
  /\ response = NoResponse

\* ------------------------------------------------------------ environment
\* time passes
Tick ==
  /\ clock < MaxClock
  /\ clock' = clock + 1
  /\ response' = NoResponse
  /\ UNCHANGED <<rebuild_in_progress, rebuild_status, vector_store, ntasks,
                 task, local, snap, proc, disk_index, last_update, agendas,
                 events, backups>>

\* --------------------------------------------------------- HTTP handlers
\* variant: a request received during a rebuild stamps started_at again
rebuild_index_restamp ==
  /\ IF rebuild_in_progress
       THEN /\ rebuild_status' = [rebuild_status EXCEPT !.started_at = clock]
            /\ response' =
                 [endpoint |-> "rebuild", status |-> "running",
                  message |-> <<"Un rebuild est deja en cours",
                                rebuild_status.message[1]>>,
                  last_update_date |-> rebuild_status.last_update_date,
                  started_at |-> clock, in_progress |-> TRUE,
                  index |-> NoIndex]
            /\ UNCHANGED <<rebuild_in_progress, ntasks, task>>
       ELSE /\ ntasks < MaxRuns
            /\ rebuild_in_progress' = TRUE
            /\ ntasks' = ntasks + 1
            /\ task' = [task EXCEPT ![ntasks + 1] = "scheduled"]
            /\ response' =
                 [endpoint |-> "rebuild", status |-> "started",
                  message |-> <<"Pipeline de mise a jour demarre", "">>,
                  last_update_date |-> NoTime, started_at |-> clock,
                  in_progress |-> TRUE, index |-> NoIndex]
            /\ UNCHANGED rebuild_status
  /\ UNCHANGED <<clock, vector_store, local, snap, proc, disk_index,
                 last_update, agendas, events, backups>>

\* variant: the flag is not consulted
rebuild_index_unguarded ==
  /\ ntasks < MaxRuns
  /\ rebuild_in_progress' = TRUE
  /\ ntasks' = ntasks + 1
  /\ task' = [task EXCEPT ![ntasks + 1] = "scheduled"]
  /\ response' =
       [endpoint |-> "rebuild", status |-> "started",
        message |-> <<"Pipeline de mise a jour demarre", "">>,
        last_update_date |-> NoTime, started_at |-> clock,
        in_progress |-> TRUE, index |-> NoIndex]
  /\ UNCHANGED <<clock, rebuild_status, vector_store, local, snap, proc,
                 disk_index, last_update, agendas, events, backups>>

\* POST /rebuild
rebuild_index ==
  /\ IF rebuild_in_progress
       THEN /\ response' =
                 [endpoint |-> "rebuild", status |-> "running",
                  message |-> <<"Un rebuild est deja en cours",
                                rebuild_status.message[1]>>,
                  last_update_date |-> rebuild_status.last_update_date,
                  started_at |-> rebuild_status.started_at,
                  in_progress |-> rebuild_in_progress, index |-> NoIndex]
            /\ UNCHANGED <<rebuild_in_progress, rebuild_status, ntasks, task>>
       ELSE /\ ntasks < MaxRuns
            /\ rebuild_in_progress' = TRUE
            /\ ntasks' = ntasks + 1
            /\ task' = [task EXCEPT ![ntasks + 1] = "scheduled"]
            /\ response' =
                 [endpoint |-> "rebuild", status |-> "started",
                  message |-> <<"Pipeline de mise a jour demarre", "">>,
                  last_update_date |-> NoTime, started_at |-> clock,
                  in_progress |-> TRUE, index |-> NoIndex]
            /\ UNCHANGED rebuild_status
  /\ UNCHANGED <<clock, vector_store, local, snap, proc, disk_index,
                 last_update, agendas, events, backups>>

\* variant: a status query that reports a terminal status resets it
rebuild_status_endpoint_resets ==
  /\ response' =
       [endpoint |-> "status", status |-> rebuild_status.status,
        message |-> rebuild_status.message,
        last_update_date |-> rebuild_status.last_update_date,
        started_at |-> rebuild_status.started_at,
        in_progress |-> rebuild_in_progress, index |-> NoIndex]
  /\ rebuild_status' =
       IF rebuild_status.status \in {"idle", "running"}
         THEN rebuild_status
         ELSE [rebuild_status EXCEPT !.status = "idle"]
  /\ UNCHANGED <<clock, rebuild_in_progress, vector_store, ntasks, task,
                 local, snap, proc, disk_index, last_update, agendas, events,
                 backups>>

\* variant: in_progress is derived from the status, not read from the flag
rebuild_status_endpoint_derives ==
  /\ response' =
       [endpoint |-> "status", status |-> rebuild_status.status,
        message |-> rebuild_status.message,
        last_update_date |-> rebuild_status.last_update_date,
        started_at |-> rebuild_status.started_at,
        in_progress |-> (rebuild_status.status = "running"), index |-> NoIndex]
  /\ UNCHANGED <<clock, rebuild_in_progress, rebuild_status, vector_store,
                 ntasks, task, local, snap, proc, disk_index, last_update,
                 agendas, events, backups>>

\* GET /rebuild/status
rebuild_status_endpoint ==
  /\ response' =
       [endpoint |-> "status", status |-> rebuild_status.status,
        message |-> rebuild_status.message,
        last_update_date |-> rebuild_status.last_update_date,
        started_at |-> rebuild_status.started_at,
        in_progress |-> rebuild_in_progress, index |-> NoIndex]
  /\ UNCHANGED <<clock, rebuild_in_progress, rebuild_status, vector_store,
                 ntasks, task, local, snap, proc, disk_index, last_update,
                 agendas, events, backups>>

\* POST /search and the retrieval of POST /ask: 503 without a serving index,
\* otherwise the results come from the index the global refers to
search ==
  /\ response' =
       [endpoint |-> "search",
        status |-> IF vector_store = NoIndex THEN "503" ELSE "200",
        message |-> <<"", "">>, last_update_date |-> NoTime,
        started_at |-> NoTime, in_progress |-> rebuild_in_progress,
        index |-> vector_store]
  /\ UNCHANGED <<clock, rebuild_in_progress, rebuild_status, vector_store,
                 ntasks, task, local, snap, proc, disk_index, last_update,
                 agendas, events, backups>>

\* ------------------------------------------------- run_rebuild_pipeline
\* From the start of the coroutine to its first await (the subprocess is
\* created) or to its return: the watermark lookup and the count of changed
\* events.  mongo: which MongoDB call raises, if any; spawn_ok: the
\* subprocess can be created.
run_rebuild_pipeline_start(i) ==
  /\ task[i] = "scheduled"
  /\ \E mongo \in {"ok", "find_fails", "count_fails"}, spawn_ok \in BOOLEAN :
       LET W == IF mongo # "find_fails"
                  THEN get_last_execution_date(last_update)
                  ELSE NoTime
           mongo_ok == mongo = "ok" \/ (mongo = "count_fails" /\ W = NoTime)
           count == IF W # NoTime /\ mongo_ok
                      THEN count_new_events(events, W)
                      ELSE NoTime
           running ==
             [status |-> "running",
              message |-> <<"Pipeline de mise a jour en cours...", "">>,
              started_at |-> clock,
              last_update_date |->
                IF W # NoTime THEN W ELSE rebuild_status.last_update_date]
           failed(cause) ==
             /\ rebuild_status' =
                  [running EXCEPT !.status = "error",
                                  !.message = <<"Erreur lors du rebuild", cause>>]
             /\ rebuild_in_progress' = FALSE
             /\ task' = [task EXCEPT ![i] = "done"]
             /\ proc' = NoProc
       IN /\ local' = [NoLocal EXCEPT !.owner = i,
                                      !.last_update_date = W,
                                      !.new_events_count = count]
          /\ snap' = Snapshot
          /\ IF ~mongo_ok
               THEN failed("MongoDB")
               ELSE IF count # NoTime /\ no_new_events(count)
                 THEN /\ rebuild_status' =
                           [running EXCEPT
                              !.status = "warning",
                              !.message = <<"Pas de nouveaux evenements depuis la derniere execution", "">>]
                      /\ rebuild_in_progress' = FALSE
                      /\ task' = [task EXCEPT ![i] = "done"]
                      /\ proc' = NoProc
                 ELSE IF ~spawn_ok
                   THEN failed("create_subprocess_exec")
                   ELSE /\ rebuild_status' = running
                        /\ task' = [task EXCEPT ![i] = "awaiting"]
                        /\ proc' = [NoProc EXCEPT !.pc = "check"]
                        /\ UNCHANGED rebuild_in_progress
  /\ response' = NoResponse
  /\ UNCHANGED <<clock, vector_store, ntasks, disk_index, last_update,
                 agendas, events, backups>>

\* After "await process.communicate()": the reload of the index, or the
\* error status, and the release of the flag.  load_ok: FAISS.load_local
\* returns.
run_rebuild_pipeline_finish(i) ==
  /\ task[i] = "awaiting"
  /\ local.owner = i
  /\ proc.pc = "exited"
  /\ \E load_ok \in BOOLEAN :
       LET loaded == load_vector_store(disk_index, load_ok)
       IN IF proc.returncode = 0
            THEN /\ vector_store' = reloaded_store(vector_store, loaded)
                 /\ rebuild_status' =
                      [rebuild_status EXCEPT
                         !.status = reload_status(loaded),
                         !.message =
                           IF loaded.raised
                             THEN <<"Pipeline termine avec succes mais echec du rechargement", "">>
                             ELSE <<"Pipeline termine avec succes", "">>]
                 /\ local' = [local EXCEPT
                                !.returncode = proc.returncode,
                                !.stderr = proc.stderr,
                                !.reload =
                                  IF loaded.raised THEN "raised" ELSE "loaded"]
            ELSE /\ rebuild_status' =
                      [rebuild_status EXCEPT
                         !.status = "error",
                         !.message =
                           <<"Echec du pipeline",
                             IF proc.stderr # "" THEN proc.stderr
                             ELSE "Erreur inconnue">>]
                 /\ local' = [local EXCEPT !.returncode = proc.returncode,
                                           !.stderr = proc.stderr]
                 /\ UNCHANGED vector_store
  /\ rebuild_in_progress' = FALSE
  /\ task' = [task EXCEPT ![i] = "done"]
  /\ proc' = [NoProc EXCEPT !.pc = "reaped"]
  /\ response' = NoResponse
  /\ UNCHANGED <<clock, ntasks, snap, disk_index, last_update, agendas,
                 events, backups>>

\* ------------------------------------------- update_pipeline.py (subprocess)
\* variant: the script logs the failure of a step and goes on
exited_continues(p, rc, err) == [p EXCEPT !.stderr = err]

\* variant: the process does not end, its step is never left
exited_hangs(p, rc, err) == p

exited(p, rc, err) ==
  [p EXCEPT !.pc = "exited", !.returncode = rc, !.stderr = err]

\* variant: the record of the run is written before the index is built
goto_record_first(p, step) ==
  [p EXCEPT !.pc = IF step = "chunk" THEN "metadata" ELSE step]

goto(p, step) == [p EXCEPT !.pc = step]

\* "if not last_execution_date: sys.exit(1)"
\* variant: the script goes on without a date of last execution
has_watermark_always(W) == TRUE

has_watermark(W) == W # NoTime

\* db[old_name].rename(new_name, dropTarget=True): the backup named by the
\* timestamp holds the documents, an earlier backup of that name is dropped
rename_collection(bks, ts, docs) ==
  { b \in bks : b.ts # ts } \cup {[ts |-> ts, docs |-> docs]}

\* delete_vector_store: shutil.rmtree when the path exists
delete_vector_store(disk) == [state |-> "absent", index |-> NoIndex]

\* the steps of the subprocess, in the order update_pipeline.py and
\* pipeline.py run them
Steps ==
  <<"check", "backup", "agendas", "events", "dedup", "clean", "chunk",
    "delete", "build", "save", "metadata">>

StepRank(s) == CHOOSE k \in 1..Len(Steps) : Steps[k] = s

\* [1/8] the date of the last execution
update_check ==
  /\ proc.pc = "check"
  /\ \E mongo_ok \in BOOLEAN :
       LET W == IF mongo_ok THEN get_last_execution_date(last_update)
                ELSE NoTime
           p == [proc EXCEPT !.ran = @ \cup {"check"}]
       IN proc' =
                     IF has_watermark(W)
                       THEN [goto(p, "backup") EXCEPT !.watermark = W]
                       ELSE exited(p, 1, "check")
  /\ response' = NoResponse
  /\ UNCHANGED <<clock, rebuild_in_progress, rebuild_status, vector_store,
                 ntasks, task, local, snap, disk_index, last_update, agendas,
                 events, backups>>

\* [2/8] backup_and_clear_for_update.  raises: where an exception other
\* than OperationFailure is raised, if anywhere ("connect": before the first
\* collection, "events": at the events collection, after the agendas were
\* handled); rename_ok: whether each rename succeeds.
update_backup ==
  /\ proc.pc = "backup"
  /\ \E raises \in {"none", "connect", "events"},
        rename_ok \in [{"agendas", "events"} -> BOOLEAN] :
       LET ts == strftime(clock)
           p == [proc EXCEPT !.ran = @ \cup {"backup"}]
           reached(c) == raises = "none" \/ (raises = "events" /\ c = "agendas")
           moved(c, docs) == reached(c) /\ docs # {} /\ rename_ok[c]
       IN /\ agendas' = IF moved("agendas", agendas) THEN {} ELSE agendas
          /\ events' = IF moved("events", events) THEN {} ELSE events
          /\ backups' =
               [agendas |->
                  IF moved("agendas", agendas)
                    THEN rename_collection(backups.agendas, ts, agendas)
                    ELSE backups.agendas,
                events |->
                  IF moved("events", events)
                    THEN rename_collection(backups.events, ts, events)
                    ELSE backups.events]
          /\ proc' =
               IF raises # "none"
                 THEN exited(p, 1, "backup")
                 ELSE goto(p, "agendas")
  /\ response' = NoResponse
  /\ UNCHANGED <<clock, rebuild_in_progress, rebuild_status, vector_store,
                 ntasks, task, local, snap, disk_index, last_update>>

\* [3/8] get_corpus_agendas.py.  "http_error": a request fails, the loop
\* breaks and the script ends normally; "crash": the script dies before
\* its try block.
update_agendas ==
  /\ proc.pc = "agendas"
  /\ \E outcome \in {"ok", "http_error", "crash"}, fetched \in SUBSET AgendaUIDs :
       LET p == [proc EXCEPT !.ran = @ \cup {"agendas"}]
       IN CASE outcome = "ok" ->
                 /\ agendas' = agendas \cup fetched
                 /\ proc' = goto(p, "events")
            [] outcome = "http_error" ->
                 /\ UNCHANGED agendas
                 /\ proc' = goto(p, "events")
            [] outcome = "crash" ->
                 /\ UNCHANGED agendas
                 /\ proc' = exited(p, 1, "agendas")
  /\ response' = NoResponse
  /\ UNCHANGED <<clock, rebuild_in_progress, rebuild_status, vector_store,
                 ntasks, task, local, snap, disk_index, last_update, events,
                 backups>>

FetchResults(a, t) ==
  { [ok |-> TRUE, page |-> pg] : pg \in Pages(a, t) }
    \cup {[ok |-> FALSE, page |-> {}]}

\* [4/8] get_corpus_events.py.  "no_base_url": OA_BASE_URL is not set and
\* the script calls exit(); with no agenda in the collection it calls exit()
\* too; a failed request abandons the loop of its agenda.  "crash": the
\* script dies before its try block.
update_events ==
  /\ proc.pc = "events"
  /\ \E outcome \in {"run", "no_base_url", "crash"} :
       LET p == [proc EXCEPT !.ran = @ \cup {"events"}]
       IN CASE outcome = "crash" ->
                 /\ UNCHANGED events
                 /\ proc' = exited(p, 1, "events")
            [] outcome = "no_base_url" \/ (outcome = "run" /\ agendas = {}) ->
                 /\ UNCHANGED events
                 /\ proc' = goto(p, "dedup")
            [] outcome = "run" /\ agendas # {} ->
                 \E r \in [agendas -> UNION { FetchResults(a, clock) : a \in agendas }] :
                   /\ \A a \in agendas : r[a] \in FetchResults(a, clock)
                   /\ events' =
                        upsert_events(events,
                          SetToSeq({ e \in UNION { r[a].page : a \in agendas } :
                                       should_include_event(e, p.watermark) }))
                   /\ proc' = goto(p, "dedup")
  /\ response' = NoResponse
  /\ UNCHANGED <<clock, rebuild_in_progress, rebuild_status, vector_store,
                 ntasks, task, local, snap, disk_index, last_update, agendas,
                 backups>>

\* [5/8] deduplicate_events.py on the documents in their natural order; an
\* exception (of MongoDB when ok is false, or of deduplicate_events) is
\* re-raised by its main
update_dedup ==
  /\ proc.pc = "dedup"
  /\ \E ok \in BOOLEAN, docs \in Orders(events) :
       LET p == [proc EXCEPT !.ran = @ \cup {"dedup"}]
           result == deduplicate_events(docs)
       IN IF ok /\ ~result.raised
            THEN /\ events' = result.events
                 /\ proc' = goto(p, "clean")
            ELSE /\ UNCHANGED events
                 /\ proc' = exited(p, 1, "dedup")
  /\ response' = NoResponse
  /\ UNCHANGED <<clock, rebuild_in_progress, rebuild_status, vector_store,
                 ntasks, task, local, snap, disk_index, last_update, agendas,
                 backups>>

\* [6/8] clean_events.py; an exception is re-raised by its main
update_clean ==
  /\ proc.pc = "clean"
  /\ \E ok \in BOOLEAN :
       LET p == [proc EXCEPT !.ran = @ \cup {"clean"}]
       IN IF ok
            THEN /\ events' = clean_events(events, MIN_DESCRIPTION_LENGTH)
                 /\ proc' = goto(p, "chunk")
            ELSE /\ UNCHANGED events
                 /\ proc' = exited(p, 1, "clean")
  /\ response' = NoResponse
  /\ UNCHANGED <<clock, rebuild_in_progress, rebuild_status, vector_store,
                 ntasks, task, local, snap, disk_index, last_update, agendas,
                 backups>>

\* ---------------------------------- [8/8] pipeline.py update (sub-subprocess)
\* [2/4] chunking and its validation.  A failure of any step of pipeline.py
\* is raised by its main: the script exits 1, run_command returns False and
\* update_pipeline.py exits 1.
pipeline_chunk ==
  /\ proc.pc = "chunk"
  /\ \E mongo_ok \in BOOLEAN :
       LET p == [proc EXCEPT !.ran = @ \cup {"chunk"}]
           chunks == process_events_to_chunks(events)
       IN proc' =
                     IF mongo_ok /\ chunks_valid(chunks)
                       THEN [goto(p, "delete") EXCEPT !.chunks = chunks]
                       ELSE exited(p, 1, "chunk")
  /\ response' = NoResponse
  /\ UNCHANGED <<clock, rebuild_in_progress, rebuild_status, vector_store,
                 ntasks, task, local, snap, disk_index, last_update, agendas,
                 events, backups>>

\* [2.5/4] the index directory is deleted
pipeline_delete ==
  /\ proc.pc = "delete"
  /\ disk_index' = delete_vector_store(disk_index)
  /\ proc' =
                [goto(proc, "build") EXCEPT !.ran = @ \cup {"delete"}]
  /\ response' = NoResponse
  /\ UNCHANGED <<clock, rebuild_in_progress, rebuild_status, vector_store,
                 ntasks, task, local, snap, last_update, agendas, events,
                 backups>>

\* [3/4] get_embeddings_model and create_vector_store, which raises
\* ValueError on an empty list.  ok: the model loads and the encoding
\* succeeds.
pipeline_build ==
  /\ proc.pc = "build"
  /\ \E ok \in BOOLEAN :
       LET p == [proc EXCEPT !.ran = @ \cup {"build"}]
       IN proc' =
                     IF ok /\ p.chunks # {}
                       THEN [goto(p, "save") EXCEPT
                               !.built = [build |-> local.owner, docs |-> p.chunks]]
                       ELSE exited(p, 1, "build")
  /\ response' = NoResponse
  /\ UNCHANGED <<clock, rebuild_in_progress, rebuild_status, vector_store,
                 ntasks, task, local, snap, disk_index, last_update, agendas,
                 events, backups>>

\* [4/4] save_vector_store: mkdir, then save_local writes the files
pipeline_save ==
  /\ proc.pc = "save"
  /\ \E outcome \in {"ok", "mkdir_fails", "write_fails"} :
       LET p == [proc EXCEPT !.ran = @ \cup {"save"}]
       IN CASE outcome = "ok" ->
                 /\ disk_index' = [state |-> "complete", index |-> p.built]
                 /\ proc' = goto(p, "metadata")
            [] outcome = "mkdir_fails" ->
                 /\ UNCHANGED disk_index
                 /\ proc' = exited(p, 1, "save")
            [] outcome = "write_fails" ->
                 /\ disk_index' = [state |-> "partial", index |-> NoIndex]
                 /\ proc' = exited(p, 1, "save")
  /\ response' = NoResponse
  /\ UNCHANGED <<clock, rebuild_in_progress, rebuild_status, vector_store,
                 ntasks, task, local, snap, last_update, agendas, events,
                 backups>>

\* variant: the record of the run replaces the history
save_last_update_metadata_replaces(coll, metadata) == <<metadata>>

\* last_update_collection.insert_one(metadata): the history is kept
save_last_update_metadata(coll, metadata) == Append(coll, metadata)

\* the count of the events and save_last_update_metadata, which logs and
\* swallows an exception of insert_one
pipeline_metadata ==
  /\ proc.pc = "metadata"
  /\ \E outcome \in {"ok", "count_fails", "insert_fails"} :
       LET p == [proc EXCEPT !.ran = @ \cup {"metadata"}]
           run == [pipeline_run_date |-> clock,
                   agendas_updated_at_gte |-> p.watermark,
                   total_events_processed |-> Cardinality(events),
                   total_chunks_created |-> Cardinality(p.chunks)]
       IN CASE outcome = "ok" ->
                 /\ last_update' = save_last_update_metadata(last_update, run)
                 /\ proc' = exited(p, 0, "")
            [] outcome = "insert_fails" ->
                 /\ UNCHANGED last_update
                 /\ proc' = exited(p, 0, "")
            [] outcome = "count_fails" ->
                 /\ UNCHANGED last_update
                 /\ proc' = exited(p, 1, "metadata")
  /\ response' = NoResponse
  /\ UNCHANGED <<clock, rebuild_in_progress, rebuild_status, vector_store,
                 ntasks, task, local, snap, disk_index, agendas, events,
                 backups>>

\* ------------------------------------------------------------ specification
Next ==
  \/ Tick
  \/ rebuild_index
  \/ rebuild_status_endpoint
  \/ search
  \/ \E i \in TaskIds : run_rebuild_pipeline_start(i)
  \/ \E i \in TaskIds : run_rebuild_pipeline_finish(i)
  \/ update_check
  \/ update_backup
  \/ update_agendas
  \/ update_events
  \/ update_dedup
  \/ update_clean
  \/ pipeline_chunk
  \/ pipeline_delete
  \/ pipeline_build
  \/ pipeline_save
  \/ pipeline_metadata

Spec == Init /\ [][Next]_vars

\* ------------------------------------------------------------ properties
\* the stores a run can write
Stores == <<disk_index, last_update, agendas, events, backups>>

SnapStores ==
  <<snap.disk_index, snap.last_update, snap.agendas, snap.events, snap.backups>>

\* the executions of run_rebuild_pipeline that were scheduled and have not
\* returned
ActiveTasks == { i \in TaskIds : task[i] \in {"scheduled", "awaiting"} }

\* C1: POST /rebuild received while rebuild_in_progress is true answers
\* 'running', schedules no background task and leaves rebuild_status
\* (started_at included) and rebuild_in_progress as they were.
C1_TriggerWhileRunning ==
  [][(rebuild_in_progress /\ response'.endpoint = "rebuild")
       => /\ response'.status = "running"
          /\ response'.started_at = rebuild_status.started_at
          /\ ntasks' = ntasks
          /\ task' = task
          /\ rebuild_status' = rebuild_status
          /\ rebuild_in_progress' = rebuild_in_progress]_vars

\* a second request is answered while the first run has been running for a
\* tick: the answer carries the started_at of the run, not the present time
C1_Witness ==
  /\ response.endpoint = "rebuild"
  /\ response.status = "running"
  /\ response.started_at # NoTime
  /\ response.started_at # clock
  /\ ntasks = 1

\* C2: whatever the interleaving of requests and background steps, at most
\* one execution of run_rebuild_pipeline is active, and one is active only
\* while rebuild_in_progress is set.
C2_SingleActiveRun ==
  /\ Cardinality(ActiveTasks) <= 1
  /\ ActiveTasks # {} => rebuild_in_progress

\* a second run is active after the first one returned
C2_Witness == task[1] = "done" /\ task[2] = "awaiting" /\ proc.pc = "build"

\* C3: at every point of a rebuild, failed or not, the index path holds a
\* complete loadable index: the previous one or a complete new one.
C3_IndexAlwaysLoadable ==
  /\ disk_index.state = "complete"
  /\ proc.pc \notin {"none", "reaped"}
       => disk_index \in {snap.disk_index,
                          [state |-> "complete", index |-> proc.built]}

\* C4: when chunking yields no chunk, the pipeline raises before
\* delete_vector_store: the index directory is as it was before the run.
C4_ZeroChunksKeepIndex ==
  ("chunk" \in proc.ran /\ process_events_to_chunks(events) = {})
    => /\ proc.pc = "exited"
       /\ proc.returncode = 1
       /\ "delete" \notin proc.ran
       /\ disk_index = snap.disk_index

\* the emptied collection received no event and the chunking step has run
C4_Witness ==
  /\ "chunk" \in proc.ran
  /\ events = {}
  /\ snap.events # {}
  /\ proc.stderr = "chunk"

\* C5: a query is answered from the index the global refers to, which during
\* a rebuild is the one loaded before it; the global is reassigned only to a
\* complete index that load_vector_store returned, so a query never sees a
\* partial or a missing index.
C5_ServeOldUntilSwap ==
  [][/\ response'.endpoint = "search"
          => /\ response'.status = "200"
             /\ response'.index = vector_store
             /\ response'.index.docs # {}
             /\ ((\E i \in TaskIds : task[i] = "awaiting")
                   => response'.index = snap.vector_store)
     /\ vector_store' # vector_store
          => /\ \E i \in TaskIds : task[i] = "awaiting" /\ task'[i] = "done"
             /\ disk_index.state = "complete"
             /\ vector_store' = disk_index.index
             /\ proc.returncode = 0]_vars

\* a query is answered while the index directory is deleted
C5_Witness ==
  /\ response.endpoint = "search"
  /\ response.status = "200"
  /\ response.index = snap.vector_store
  /\ rebuild_in_progress
  /\ disk_index.state = "absent"

\* C6: a rebuild triggered while last_update holds no record ends with the
\* status 'error'; no collection is archived, nothing is fetched and the
\* index directory is not modified.
C6_NoWatermarkError ==
  (local.owner # 0 /\ snap.last_update = <<>>)
    => /\ Stores = SnapStores
       /\ vector_store = snap.vector_store
       /\ proc.ran \subseteq {"check"}
       /\ task[local.owner] = "done" => rebuild_status.status = "error"

\* the subprocess was launched, found no record and the run ended
C6_Witness ==
  /\ snap.last_update = <<>>
  /\ local.owner # 0
  /\ task[local.owner] = "done"
  /\ rebuild_status.message = <<"Echec du pipeline", "check">>

\* C7: with a watermark and a count of changed events of zero the rebuild
\* ends with the status 'warning' and the update pipeline is not launched:
\* nothing is archived or fetched, and the index directory, the serving
\* index and last_update are unchanged.
C7_NoNewEventsWarning ==
  (local.last_update_date # NoTime /\ local.new_events_count = 0)
    => /\ rebuild_status.status = "warning"
       /\ task[local.owner] = "done"
       /\ proc = NoProc
       /\ Stores = SnapStores
       /\ vector_store = snap.vector_store

\* the run found a watermark, counted no changed event and returned
C7_Witness ==
  /\ local.new_events_count = 0
  /\ rebuild_status.status = "warning"
  /\ events # {}
  /\ ~rebuild_in_progress

C9_ReloadFailureWarning ==
  (local.returncode = 0 /\ local.reload = "raised")
    => /\ rebuild_status.status = "success_with_warning"
       /\ vector_store = snap.vector_store
       /\ task[local.owner] = "done"
       /\ rebuild_in_progress => ActiveTasks # {}

\* the new index is on disk and the old one is still served
C9_Witness ==
  /\ local.reload = "raised"
  /\ rebuild_status.status = "success_with_warning"
  /\ disk_index.state = "complete"
  /\ vector_store # disk_index.index
  /\ ~rebuild_in_progress

Terminal == {"warning", "success", "success_with_warning", "error"}

\* C11: a run of run_rebuild_pipeline that has returned, by whatever path,
\* has left rebuild_in_progress false and a terminal status; 'running' only
\* stands while a run awaits its subprocess.
C11_ReturnReleasesFlag ==
  /\ (ntasks > 0 /\ ActiveTasks = {})
       => /\ ~rebuild_in_progress
          /\ rebuild_status.status \in Terminal
  /\ rebuild_status.status = "running"
       => \E i \in TaskIds : task[i] = "awaiting"
  /\ \A i \in TaskIds :
       (task[i] = "done" /\ local.owner = i)
         => rebuild_status.status \in Terminal

\* a run returned through the handler of an exception
C11_Witness ==
  /\ ntasks = 1
  /\ task[1] = "done"
  /\ rebuild_status.message = <<"Erreur lors du rebuild", "create_subprocess_exec">>
  /\ ~rebuild_in_progress

\* C12: the status becomes 'running' only when a scheduled run starts, a
\* terminal status is only set by a run (after it stamped started_at and
\* set 'running'), 'idle' never comes back, and triggers and status queries
\* leave rebuild_status as it is.
C12_StatusTransitions ==
  [][/\ rebuild_status' # rebuild_status
          => \E i \in TaskIds : /\ task[i] \in {"scheduled", "awaiting"}
                                /\ task'[i] # task[i]
     /\ (rebuild_status'.status = "running" /\ rebuild_status.status # "running")
          => \E i \in TaskIds : task[i] = "scheduled" /\ task'[i] = "awaiting"
     /\ (rebuild_status'.status \in Terminal /\ rebuild_status' # rebuild_status)
          => \/ /\ rebuild_status.status = "running"
                /\ \E i \in TaskIds : task[i] = "awaiting" /\ task'[i] = "done"
             \/ /\ rebuild_status'.started_at = clock
                /\ \E i \in TaskIds : task[i] = "scheduled" /\ task'[i] = "done"
     /\ rebuild_status'.status = "idle" => rebuild_status.status = "idle"
     /\ response'.endpoint \in {"rebuild", "status"}
          => rebuild_status' = rebuild_status]_vars

\* the terminal status of the first run is reported while the second run is
\* scheduled and has not started
C12_Witness ==
  /\ response.endpoint = "status"
  /\ response.status = "error"
  /\ response.in_progress
  /\ task[1] = "done"
  /\ task[2] = "scheduled"

\* the most recent run-metadata record: the one inserted last, whose
\* pipeline_run_date no other record exceeds
latest_run == last_update[Len(last_update)]

\* C13: after a successful run that used the watermark W, left N events and
\* produced C chunks, the most recent run-metadata record carries W, N and C.
C13_LatestRecordMatchesRun ==
  rebuild_status.status \in {"success", "success_with_warning"}
    => /\ Len(last_update) > 0
       /\ latest_run.agendas_updated_at_gte = rebuild_status.last_update_date
       /\ latest_run.total_events_processed = Cardinality(events)
       /\ latest_run.total_chunks_created =
            Cardinality(process_events_to_chunks(events))

\* the greatest pipeline_run_date of the run-metadata records
latest_run_date ==
  Max({ last_update[k].pipeline_run_date : k \in 1..Len(last_update) })

\* what an incremental run does with a date W: the check step hands W to the
\* later steps, the event fetch stores only events created or updated at or
\* after W, and the metadata of the run records W as the agenda filter
uses_watermark(W) ==
  /\ (proc.pc = "check" /\ proc'.pc = "backup") => proc'.watermark = W
  /\ proc.pc = "events"
       => \A e \in events' \ events : e.createdAt >= W \/ e.updatedAt >= W
  /\ (proc.pc = "metadata" /\ Len(last_update') > Len(last_update))
       => last_update'[Len(last_update')].agendas_updated_at_gte = W

\* C14 (as stated): with at least one run-metadata record,
\* get_last_execution_date returns the timestamp of the record with the
\* greatest pipeline_run_date, and the incremental run uses exactly that
\* value as agenda filter and as event filter.
C14_WatermarkIsLatestRunDate ==
  [][last_update # <<>> => uses_watermark(latest_run_date)]_vars

\* C14 (amended): the value returned and used by both filters is the
\* greatest pipeline_run_date cut down to whole seconds.
C14_WatermarkIsLatestRunSecond ==
  [][last_update # <<>> => uses_watermark(strftime(latest_run_date))]_vars

\* a second run took the date of the first run's record, not of the
\* initial one, and fetched an event through the filter
C14_Witness ==
  /\ Len(last_update) = 2
  /\ last_update[2].pipeline_run_date > last_update[1].pipeline_run_date
  /\ proc.pc = "dedup"
  /\ proc.watermark = strftime(last_update[2].pipeline_run_date)
  /\ strftime(last_update[1].pipeline_run_date) < proc.watermark
  /\ \E e \in events : e.updatedAt >= proc.watermark

\* C15: run-metadata records are only ever inserted: every step of the
\* pipeline, of the archival and of the rebuild orchestrator leaves the
\* records of last_update as they are or adds one record after them.
C15_RunRecordsOnlyGrow ==
  [][\/ last_update' = last_update
     \/ /\ Len(last_update') = Len(last_update) + 1
        /\ SubSeq(last_update', 1, Len(last_update)) = last_update]_vars

\* a run archived the events and added its record after the initial one
C15_Witness ==
  /\ Len(last_update) = 2
  /\ last_update[1] = InitialRun
  /\ backups.events # {}
  /\ "metadata" \in proc.ran

\* ------------------------------------------------- the corpus scripts alone
\* The scripts of src/corpus applied to collections drawn from bounded sets:
\* the API, the index and the run metadata stay as constructed.
MaxAgendas == 2

MaxStamp == 2

PageSize == 2

EventUIDs == {1, 2}

Stamps == 1..MaxStamp

CorpusKeys == EventUIDs \X (1..MaxAgendas)

Document(key, updatedAt, longDescription) ==
  [uid |-> key[1], agendaUid |-> key[2], createdAt |-> 0,
   updatedAt |-> updatedAt, longDescription |-> longDescription]

\* the collections that ingestion can leave: at most one document per
\* (uid, agendaUid) of keys, with the given values of updatedAt and
\* longDescription
Collections(keys, updatedAts, descriptions) ==
  UNION { { { Document(k, f[k][1], f[k][2]) : k \in K } :
            f \in [K -> updatedAts \X descriptions] } :
          K \in SUBSET keys }

\* the API is not started, no subprocess of a rebuild runs
CorpusOnly ==
  /\ clock = FirstTick
  /\ rebuild_in_progress = FALSE
  /\ rebuild_status =
       [status |-> "idle", message |-> <<"Aucun rebuild en cours", "">>,
        started_at |-> NoTime, last_update_date |-> NoTime]
  /\ vector_store = NoIndex
  /\ disk_index = [state |-> "absent", index |-> NoIndex]
  /\ ntasks = 0
  /\ task = [i \in TaskIds |-> "unborn"]
  /\ local = NoLocal
  /\ last_update = <<>>
  /\ backups = [agendas |-> {}, events |-> {}]
  /\ response = NoResponse

CorpusFrame ==
  UNCHANGED <<clock, rebuild_in_progress, rebuild_status, vector_store,
              disk_index, ntasks, task, local, last_update, backups, response>>

\* ---- ingestion: get_corpus_agendas.py and get_corpus_events.py
\* the agendas read and the dates of update that the upstream API returns
IngestAgendas == {1, 2}

IngestStamps == {1, 2}

\* the pages that the upstream API can return: (uid, updatedAt) of each item
UpstreamPages ==
  UNION { [1..n -> EventUIDs \X IngestStamps] : n \in 0..PageSize }

AgendaPages ==
  UNION { [1..n -> IngestAgendas \X IngestStamps] : n \in 0..PageSize }

\* UpdateOne({"uid": agenda["uid"]}, {"$set": agenda}, upsert=True)
UpdateOne_agenda(coll, agenda) ==
  { d \in coll : d.uid # agenda.uid } \cup {agenda}

RECURSIVE upsert_agendas(_, _)
upsert_agendas(coll, operations) ==
  IF operations = <<>>
    THEN coll
    ELSE upsert_agendas(UpdateOne_agenda(coll, Head(operations)),
                        Tail(operations))

\* whether the response is the one that the script received last
same_page(agenda_uid, received) ==
  /\ proc.ran # {}
  /\ snap.agenda_uid = agenda_uid
  /\ snap.page = received

InitUpsert ==
  /\ CorpusOnly
  /\ agendas = {}
  /\ events = {}
  /\ snap = [agenda_uid |-> 0, page |-> <<>>, repeated |-> FALSE]
  /\ proc \in {[NoProc EXCEPT !.pc = "agendas"], [NoProc EXCEPT !.pc = "events"]}

\* one page of agendas: the upsert of every agenda of the response
fetch_agendas_page ==
  /\ proc.pc = "agendas"
  /\ \E agendas_received \in AgendaPages :
       LET operations ==
             [k \in DOMAIN agendas_received |->
                [uid |-> agendas_received[k][1],
                 updatedAt |-> agendas_received[k][2]]]
       IN /\ agendas' = IF Len(operations) = 0
                          THEN agendas
                          ELSE upsert_agendas(agendas, operations)
          /\ snap' = [agenda_uid |-> 0, page |-> agendas_received,
                      repeated |-> same_page(0, agendas_received)]
  /\ proc' = [proc EXCEPT !.ran = {"agendas"}]
  /\ UNCHANGED events
  /\ CorpusFrame

\* one page of the events of an agenda: agendaUid is set on every event, the
\* date filter is applied (none outside of an incremental run) and the
\* events kept are upserted
fetch_events_page ==
  /\ proc.pc = "events"
  /\ \E agenda_uid \in IngestAgendas, events_received \in UpstreamPages :
       LET tagged ==
             [k \in DOMAIN events_received |->
                Document(<<events_received[k][1], agenda_uid>>,
                         events_received[k][2], MIN_DESCRIPTION_LENGTH)]
           events_to_insert ==
             SelectSeq(tagged, LAMBDA e : should_include_event(e, NoTime))
       IN /\ events' = IF Len(events_to_insert) = 0
                         THEN events
                         ELSE upsert_events(events, events_to_insert)
          /\ snap' = [agenda_uid |-> agenda_uid, page |-> events_received,
                      repeated |-> same_page(agenda_uid, events_received)]
  /\ proc' = [proc EXCEPT !.ran = {"events"}]
  /\ UNCHANGED agendas
  /\ CorpusFrame

NextUpsert ==
  \/ fetch_agendas_page
  \/ fetch_events_page

SpecUpsert == InitUpsert /\ [][NextUpsert]_vars

\* C18: after any sequence of upserts of pages of events, repeated or
\* overlapping, the collection holds at most one record per
\* (uid, agendaUid), and every (uid, agendaUid) fetched has its own record:
\* a uid fetched under two agendas is kept as two records.
C18_OneRecordPerUidAndAgenda ==
  [][proc.pc = "events"
       => /\ \A d1, d2 \in events' :
               EventKey(d1) = EventKey(d2) => d1 = d2
          /\ { EventKey(d) : d \in events' } =
               { EventKey(d) : d \in events }
                 \cup { <<snap'.page[k][1], snap'.agenda_uid>> :
                          k \in DOMAIN snap'.page }]_vars

\* a page that holds the same event twice was upserted, and the collection
\* holds a uid under two agendas
C18_Witness ==
  /\ proc.ran = {"events"}
  /\ Len(snap.page) = 2
  /\ snap.page[1][1] = snap.page[2][1]
  /\ snap.page[1][2] # snap.page[2][2]
  /\ \E d1, d2 \in events : d1.uid = d2.uid /\ d1.agendaUid # d2.agendaUid
  /\ Cardinality(events) = 2

\* C20: the upsert of the page that was upserted last (of events, under the
\* same agenda, or of agendas) leaves the collection with the same
\* documents: same number, same field values.
C20_UpsertIdempotent ==
  [][snap'.repeated => events' = events /\ agendas' = agendas]_vars

\* a page of two events was upserted a second time, onto a collection of
\* three events
C20_Witness ==
  /\ proc.ran = {"events"}
  /\ snap.repeated
  /\ Len(snap.page) = 2
  /\ \A k \in DOMAIN snap.page :
       Document(<<snap.page[k][1], snap.agenda_uid>>, snap.page[k][2],
                MIN_DESCRIPTION_LENGTH) \in events
  /\ snap.page[1][1] # snap.page[2][1]
  /\ Cardinality(events) = 3

\* ---- deduplication: deduplicate_events.py
InitDedup ==
  /\ CorpusOnly
  /\ agendas = {}
  /\ events \in Collections(CorpusKeys, {Missing, Null} \cup Stamps,
                           {MIN_DESCRIPTION_LENGTH})
  /\ snap = [events |-> events]
  /\ proc = [NoProc EXCEPT !.pc = "dedup"]

\* main of deduplicate_events.py: deduplicate_events(collection,
\* dry_run=False) on the documents in their natural order; an exception is
\* re-raised
deduplicate_main ==
  /\ proc.pc = "dedup"
  /\ \E docs \in Orders(events) :
       LET result == deduplicate_events(docs)
           p == [proc EXCEPT !.ran = {"dedup"}]
       IN /\ events' = result.events
          /\ proc' = IF result.raised
                       THEN exited(p, 1, "dedup")
                       ELSE exited(p, 0, "")
  /\ UNCHANGED <<agendas, snap>>
  /\ CorpusFrame

NextDedup == deduplicate_main

SpecDedup == InitDedup /\ [][NextDedup]_vars

\* deduplicate_events has returned
Deduplicated == proc.ran = {"dedup"} /\ proc.returncode = 0

\* the records of a uid before the deduplication
GroupOf(uid) == { d \in snap.events : d.uid = uid }

\* C16: after deduplicate_events every uid occurs in exactly one record,
\* the survivor of a uid that had several records has an updatedAt greater
\* than or equal to that of every deleted record of the uid, and the record
\* of a uid that had one record is untouched.
C16_OneRecordPerUidNewestKept ==
  Deduplicated
    => /\ events \subseteq snap.events
       /\ \A uid \in { d.uid : d \in snap.events } :
            /\ Cardinality({ d \in events : d.uid = uid }) = 1
            /\ \A d \in events, x \in GroupOf(uid) \ events :
                 d.uid = uid => d.updatedAt >= x.updatedAt

\* C17: in a group of duplicates where some members have a null or missing
\* updatedAt and at least one has a timestamp, the survivor is the member
\* with the greatest timestamp and every null or missing member is deleted.
C17_UndatedMembersDeleted ==
  Deduplicated
    => \A uid \in EventUIDs :
         ( /\ Cardinality(GroupOf(uid)) > 1
           /\ \E x \in GroupOf(uid) : x.updatedAt \in {Missing, Null}
           /\ \E x \in GroupOf(uid) : x.updatedAt \in Stamps )
           => /\ \A d \in events :
                   d.uid = uid
                     => /\ d.updatedAt \in Stamps
                        /\ \A x \in GroupOf(uid) : x.updatedAt <= d.updatedAt
              /\ \E d \in events : d.uid = uid

\* ---- curation: clean_events.py
\* the lengths of longDescription around the two thresholds, and the
\* descriptions that are absent, null or empty
Descriptions ==
  {Missing, Null, 0, MIN_DESCRIPTION_LENGTH - 1, MIN_DESCRIPTION_LENGTH,
   MIN_DESCRIPTION_LENGTH + 1}

MinLengths == {MIN_DESCRIPTION_LENGTH, MIN_DESCRIPTION_LENGTH + 1}

\* one uid under every agenda, and a second uid under the first agenda
CleanKeys == { k \in CorpusKeys : k[1] = 1 \/ k[2] = 1 }

InitClean ==
  /\ CorpusOnly
  /\ agendas = {}
  /\ events \in Collections(CleanKeys, {1}, Descriptions)
  /\ \E min_length \in MinLengths :
       snap = [events |-> events, min_length |-> min_length]
  /\ proc = [NoProc EXCEPT !.pc = "clean"]

\* clean_events(collection, min_length, dry_run=False), as main calls it
clean_main ==
  /\ proc.pc = "clean"
  /\ events' = clean_events(events, snap.min_length)
  /\ proc' = exited([proc EXCEPT !.ran = {"clean"}], 0, "")
  /\ UNCHANGED <<agendas, snap>>
  /\ CorpusFrame

NextClean == clean_main

SpecClean == InitClean /\ [][NextClean]_vars

\* clean_events has returned
Cleaned == proc.ran = {"clean"}

\* C19: clean_events deletes exactly the events whose longDescription is
\* absent, null, empty or shorter than min_length, and keeps every event
\* whose longDescription has at least min_length characters.
C19_ShortDescriptionsDeleted ==
  Cleaned
    => /\ events \subseteq snap.events
       /\ \A e \in snap.events :
            e \notin events
              <=> \/ e.longDescription = Missing
                  \/ e.longDescription = Null
                  \/ e.longDescription = 0
                  \/ e.longDescription < snap.min_length

\* with the default of 100, events of 99 and of 100 characters and one
\* without description were curated: the one of 100 characters is left
C19_Witness ==
  /\ Cleaned
  /\ snap.min_length = MIN_DESCRIPTION_LENGTH
  /\ { e.longDescription : e \in snap.events } =
       {Missing, MIN_DESCRIPTION_LENGTH - 1, MIN_DESCRIPTION_LENGTH}
  /\ { e.longDescription : e \in events } = {MIN_DESCRIPTION_LENGTH}

\* C29: GET /rebuild/status returns the status, the message, started_at and
\* in_progress that the singleton and the flag hold at the time of the call,
\* in whatever state they are, and leaves rebuild_status,
\* rebuild_in_progress and the serving index unchanged.
C29_StatusQueryOnlyReads ==
  [][response'.endpoint = "status"
       => /\ response'.status = rebuild_status.status
          /\ response'.message = rebuild_status.message
          /\ response'.started_at = rebuild_status.started_at
          /\ response'.in_progress = rebuild_in_progress
          /\ UNCHANGED <<rebuild_status, rebuild_in_progress, vector_store>>]_vars

\* the status is queried after a run whose reload failed, while the next
\* run is scheduled and has not started
C29_Witness ==
  /\ response.endpoint = "status"
  /\ response.status = "success_with_warning"
  /\ response.in_progress
  /\ rebuild_status.status = "success_with_warning"
  /\ rebuild_in_progress

\* ---- the date filter of get_corpus_events.py on one page
\* OA_EVENTS_DATE_FILTER: not set, or a date
FilterDates == {NoTime, 1, 2}

\* (createdAt, updatedAt) of the events that the upstream API returns
DatePairs ==
  {<<0, Missing>>, <<0, Null>>, <<0, 0>>, <<0, 1>>, <<0, 2>>, <<2, Null>>,
   <<2, 2>>, <<3, 3>>}

FilteredPages ==
  UNION { [1..n -> EventUIDs \X DatePairs] : n \in 0..PageSize }

\* "event['agendaUid'] = agenda_uid" on every event of the response
tagged_events(agenda_uid, events_received) ==
  [k \in DOMAIN events_received |->
     [uid |-> events_received[k][1], agendaUid |-> agenda_uid,
      createdAt |-> events_received[k][2][1],
      updatedAt |-> events_received[k][2][2],
      longDescription |-> MIN_DESCRIPTION_LENGTH]]

InitFilter ==
  /\ CorpusOnly
  /\ agendas = {}
  /\ events = {}
  /\ \E date_filter \in FilterDates, events_received \in FilteredPages :
       snap = [date_filter |-> date_filter, agenda_uid |-> 1,
               page |-> events_received,
               nb_events_total |-> 0, nb_events_filtered_out |-> 0]
  /\ proc = [NoProc EXCEPT !.pc = "events"]

\* the body of the pagination loop on the page received: the events that
\* pass the filter are collected and upserted, the others are counted
filter_events_page ==
  /\ proc.pc = "events"
  /\ LET received == tagged_events(snap.agenda_uid, snap.page)
         events_to_insert ==
           SelectSeq(received,
                     LAMBDA e : should_include_event(e, snap.date_filter))
     IN /\ events' = IF Len(events_to_insert) = 0
                       THEN events
                       ELSE upsert_events(events, events_to_insert)
        /\ snap' = [snap EXCEPT
                      !.nb_events_total = @ + Len(events_to_insert),
                      !.nb_events_filtered_out =
                         @ + Len(received) - Len(events_to_insert)]
  /\ proc' = exited([proc EXCEPT !.ran = {"events"}], 0, "")
  /\ UNCHANGED agendas
  /\ CorpusFrame

NextFilter == filter_events_page

SpecFilter == InitFilter /\ [][NextFilter]_vars

\* the positions of the page in snap whose event passes the check on W
Passing(W) ==
  { k \in DOMAIN snap.page :
      \/ snap.page[k][2][1] \in Nat /\ snap.page[k][2][1] >= W
      \/ snap.page[k][2][2] \in Nat /\ snap.page[k][2][2] >= W }

MaxPagesPerAgenda == 2
FetchPages == {<<>>, <<<<1, 1>>>>, <<<<1, 2>>>>, <<<<1, 1>>, <<2, 1>>>>}
StoredAgendas == { {[uid |-> a, updatedAt |-> 1] : a \in S} : S \in SUBSET IngestAgendas }

\* variant: the failure leaves the "for" loop as well
break_pagination_and_loop(s) ==
  [s EXCEPT !.i = Len(s.agenda_uids) + 1, !.after = 0]
\* "break" out of "while True": the pagination of this agenda is left and the
\* "for" loop takes the next agenda with fresh parameters
break_pagination(s) == [s EXCEPT !.i = @ + 1, !.after = 0]

\* the end of the "for" loop: the script logs its totals and ends
end_of_loop(p, s) == IF s.i > Len(s.agenda_uids) THEN exited(p, 0, "") ELSE p

InitFetch ==
  /\ CorpusOnly
  /\ agendas \in StoredAgendas
  /\ events = {}
  /\ snap = [agenda_uids |-> <<>>, i |-> 1, after |-> 0, requested |-> {},
             failed |-> {}]
  /\ proc = [NoProc EXCEPT !.pc = "start"]

\* "agenda_uids = [agenda["uid"] for agenda in agendas_cursor]" and
\* "if not agenda_uids: exit()"
fetch_read_agendas ==
  /\ proc.pc = "start"
  /\ \E agenda_uids \in Orders({a.uid : a \in agendas}) :
       /\ snap' = [snap EXCEPT !.agenda_uids = agenda_uids]
       /\ proc' = IF Len(agenda_uids) = 0
                    THEN exited(proc, 0, "")
                    ELSE goto(proc, "events")
  /\ UNCHANGED <<agendas, events>>
  /\ CorpusFrame

\* one request that succeeds: the page is upserted, and either "after" is kept
\* for the next request or the pagination of the agenda ends
fetch_request_ok ==
  /\ proc.pc = "events"
  /\ \E events_received \in FetchPages, more \in BOOLEAN :
       LET agenda_uid == snap.agenda_uids[snap.i]
           tagged ==
             [k \in DOMAIN events_received |->
                Document(<<events_received[k][1], agenda_uid>>,
                         events_received[k][2], MIN_DESCRIPTION_LENGTH)]
           seen == [snap EXCEPT !.requested = @ \cup {agenda_uid}]
           next == IF more /\ snap.after + 1 < MaxPagesPerAgenda
                     THEN [seen EXCEPT !.after = @ + 1]
                     ELSE break_pagination(seen)
       IN /\ events' = IF Len(tagged) = 0 THEN events
                       ELSE upsert_events(events, tagged)
          /\ snap' = next
          /\ proc' = end_of_loop(proc, next)
  /\ UNCHANGED agendas
  /\ CorpusFrame

\* one request that fails: requests.get, raise_for_status or json raise
\* (nothing is written), or bulk_write raises after the operations that
\* precede the failing one were applied; both handlers log and "break"
fetch_request_fails ==
  /\ proc.pc = "events"
  /\ \E events_received \in FetchPages :
     \E applied \in 0..Len(events_received) :
       LET agenda_uid == snap.agenda_uids[snap.i]
           tagged ==
             [k \in 1..applied |->
                Document(<<events_received[k][1], agenda_uid>>,
                         events_received[k][2], MIN_DESCRIPTION_LENGTH)]
           seen == [snap EXCEPT !.requested = @ \cup {agenda_uid},
                                !.failed = @ \cup {agenda_uid}]
           next == break_pagination(seen)
       IN /\ events' = IF applied = 0 THEN events
                       ELSE upsert_events(events, tagged)
          /\ snap' = next
          /\ proc' = end_of_loop(proc, next)
  /\ UNCHANGED agendas
  /\ CorpusFrame

NextFetch ==
  \/ fetch_read_agendas
  \/ fetch_request_ok
  \/ fetch_request_fails

SpecFetch == InitFetch /\ [][NextFetch]_vars

\* C22: a failure while the events of one agenda are paginated ends the
\* pagination of that agenda only: no event stored before the failure is
\* removed, the loop goes on with the next agenda, and the script ends only
\* once every agenda read from the collection was requested
C22_FailureAbandonsOneAgenda ==
  [][/\ \A d \in events : \E e \in events' : EventKey(e) = EventKey(d)
     /\ snap'.failed # snap.failed =>
          /\ snap'.i = snap.i + 1
          /\ snap'.after = 0
          /\ (snap'.i <= Len(snap.agenda_uids) => proc'.pc = "events")
     /\ proc'.pc = "exited" =>
          snap'.requested = {snap'.agenda_uids[k] : k \in DOMAIN snap'.agenda_uids}
    ]_vars

C22_Witness ==
  /\ proc.pc = "exited"
  /\ snap.agenda_uids = <<1, 2>>
  /\ snap.failed = {1}
  /\ snap.requested = {1, 2}
  /\ \E d \in events : d.agendaUid = 1
  /\ \E d \in events : d.agendaUid = 2


\* ---- cleanup_mongodb.py: backup_and_clear_for_update
MaxBackups == 2
Live == {"agendas", "events"}
BackupAgendas == {{}, {[uid |-> 1, updatedAt |-> 1]}}
BackupEvents ==
  LET e1 == Document(<<1, 1>>, 1, MIN_DESCRIPTION_LENGTH)
      e2 == Document(<<2, 1>>, 1, MIN_DESCRIPTION_LENGTH)
  IN {{}, {e1}, {e2}, {e1, e2}}

\* "agendas": {"backed_up": False, "cleared": False, "count": 0}
NoCollectionStats == [backed_up |-> FALSE, cleared |-> FALSE, count |-> 0]
NoStats ==
  [timestamp |-> NoTime, collections_backed_up |-> 0,
   collections_cleared |-> 0, agendas |-> NoCollectionStats,
   events |-> NoCollectionStats]

\* variant: "if count >= 0", an empty collection is archived as well
needs_backup_when_empty(exists, docs) == exists
\* "if collection_exists(db, collection_name)" and "if count > 0"
needs_backup(exists, docs) == exists /\ Cardinality(docs) > 0

\* the body of the loop for one collection: the rename, and on success the
\* flags and the count taken before the rename
backup_collection(exists, docs, bks, ts, rename_ok) ==
  IF needs_backup(exists, docs) /\ rename_ok
    THEN [exists |-> FALSE, docs |-> {},
          backups |-> rename_collection(bks, ts, docs),
          stats |-> [backed_up |-> TRUE, cleared |-> TRUE,
                     count |-> Cardinality(docs)]]
    ELSE [exists |-> exists, docs |-> docs, backups |-> bks,
          stats |-> NoCollectionStats]

InitBackup ==
  /\ CorpusOnly
  /\ \E exists \in [Live -> BOOLEAN] :
       /\ agendas \in (IF exists.agendas THEN BackupAgendas ELSE {{}})
       /\ events \in (IF exists.events THEN BackupEvents ELSE {{}})
       /\ snap = [calls |-> 0, exists |-> exists, stats |-> NoStats,
                  returned |-> FALSE]
  /\ proc = [NoProc EXCEPT !.pc = "backup"]

\* one call of backup_and_clear_for_update.  "connect": the connection
\* raises before the loop; "events": count_documents raises for events,
\* after agendas was handled; the exception is logged and raised again
backup_and_clear_for_update ==
  /\ proc.pc = "backup"
  /\ snap.calls < MaxBackups
  /\ \E raises \in {"none", "connect", "events"},
        rename_ok \in [Live -> BOOLEAN] :
       LET ts == strftime(clock)
           reached(c) == raises = "none" \/ (raises = "events" /\ c = "agendas")
           a == IF reached("agendas")
                  THEN backup_collection(snap.exists.agendas, agendas,
                                         backups.agendas, ts,
                                         rename_ok.agendas)
                  ELSE [exists |-> snap.exists.agendas, docs |-> agendas,
                        backups |-> backups.agendas,
                        stats |-> NoCollectionStats]
           e == IF reached("events")
                  THEN backup_collection(snap.exists.events, events,
                                         backups.events, ts, rename_ok.events)
                  ELSE [exists |-> snap.exists.events, docs |-> events,
                        backups |-> backups.events,
                        stats |-> NoCollectionStats]
           moved == Cardinality({x \in {<<1, a>>, <<2, e>>} :
                                   x[2].stats.backed_up})
       IN /\ agendas' = a.docs
          /\ events' = e.docs
          /\ backups' = [agendas |-> a.backups, events |-> e.backups]
          /\ snap' = [calls |-> snap.calls + 1,
                      exists |-> [agendas |-> a.exists, events |-> e.exists],
                      stats |->
                        IF raises = "none"
                          THEN [timestamp |-> ts,
                                collections_backed_up |-> moved,
                                collections_cleared |-> moved,
                                agendas |-> a.stats, events |-> e.stats]
                          ELSE NoStats,
                      returned |-> (raises = "none")]
  /\ UNCHANGED proc
  /\ UNCHANGED <<clock, rebuild_in_progress, rebuild_status, vector_store,
                 disk_index, ntasks, task, local, last_update, response>>

\* between two archival runs the ingestion scripts insert documents, which
\* creates the collection again
ingest_after_backup ==
  /\ proc.pc = "backup"
  /\ snap.calls < MaxBackups
  /\ \E A \in BackupAgendas, E \in BackupEvents :
       /\ A \cup E # {}
       /\ agendas' = agendas \cup A
       /\ events' = events \cup E
       /\ snap' = [snap EXCEPT
                     !.exists = [agendas |-> @.agendas \/ A # {},
                                 events |-> @.events \/ E # {}]]
  /\ UNCHANGED <<proc, backups>>
  /\ UNCHANGED <<clock, rebuild_in_progress, rebuild_status, vector_store,
                 disk_index, ntasks, task, local, last_update, response>>

NextBackup ==
  \/ backup_and_clear_for_update
  \/ ingest_after_backup
  \/ Tick

SpecBackup == InitBackup /\ [][NextBackup]_vars

\* the three outcomes of a call that returned, for one collection
NothingArchived(c, docs, docs2, exists2, bks, bks2, s) ==
  /\ bks2 = bks
  /\ docs2 = docs
  /\ s = NoCollectionStats

Archived(c, docs, docs2, exists2, bks, bks2, s, ts) ==
  /\ docs2 = {}
  /\ ~exists2
  /\ [ts |-> ts, docs |-> docs] \in bks2
  /\ s = [backed_up |-> TRUE, cleared |-> TRUE, count |-> Cardinality(docs)]

\* the statement for one step of the call, with or without the case of a
\* rename that the server refuses
BackupStep(with_refused_rename) ==
  (snap'.calls = snap.calls + 1 /\ snap'.returned) =>
    \A c \in Live :
         LET docs == IF c = "agendas" THEN agendas ELSE events
             docs2 == IF c = "agendas" THEN agendas' ELSE events'
             s == snap'.stats[c]
         IN IF ~snap.exists[c] \/ docs = {}
              THEN NothingArchived(c, docs, docs2, snap'.exists[c],
                                   backups[c], backups'[c], s)
              ELSE \/ Archived(c, docs, docs2, snap'.exists[c], backups[c],
                               backups'[c], s, strftime(clock))
                   \/ /\ with_refused_rename
                      /\ NothingArchived(c, docs, docs2, snap'.exists[c],
                                         backups[c], backups'[c], s)

C24_BackupNeverOverwritten ==
  [][\A c \in Live : \A b \in backups[c] : b \in backups'[c]]_vars


\* ---- utils/clean_backups.py
\* a collection name is a sequence of pieces; "d8" and "d6" are runs of
\* eight and of six digits, "d7" a run of seven
LiveNames == {<<"agendas">>, <<"events">>, <<"last_update">>}
CollectionNames ==
  LiveNames \cup
  {<<"events", "_update_", "d8", "_", "d6">>,
   <<"agendas", "_backup_", "d8", "_", "d6">>,
   <<"events", "_update_", "d8", "_", "d6", "_old">>,
   <<"events", "_update_", "d7", "_", "d6">>,
   <<"events", "_copy_", "d8", "_", "d6">>}
Responses == {"oui", "o", "yes", "y", " OUI ", "non", "", "KeyboardInterrupt"}

\* variant: the pattern without its "$", the suffix may be followed by text
is_backup_collection_unanchored(collection_name) ==
  \E k \in 1..Len(collection_name) :
    /\ k + 3 <= Len(collection_name)
    /\ collection_name[k] \in {"_backup_", "_update_"}
    /\ collection_name[k + 1] = "d8"
    /\ collection_name[k + 2] = "_"
    /\ collection_name[k + 3] = "d6"

\* re.match of r".*_backup_\d{8}_\d{6}$" or of r".*_update_\d{8}_\d{6}$"
is_backup_collection(collection_name) ==
  LET n == Len(collection_name)
  IN /\ n >= 4
     /\ collection_name[n - 3] \in {"_backup_", "_update_"}
     /\ collection_name[n - 2] = "d8"
     /\ collection_name[n - 1] = "_"
     /\ collection_name[n] = "d6"

list_backup_collections(db) == { c \in db : is_backup_collection(c) }

\* response.strip().lower()
strip_lower(answer) == IF answer = " OUI " THEN "oui" ELSE answer

\* "return response in [...]", and False on KeyboardInterrupt
confirm_deletion(answer) ==
  /\ answer # "KeyboardInterrupt"
  /\ strip_lower(answer) \in {"oui", "o", "yes", "y"}

\* drop_collection for every backup of the list; a drop that raises is
\* counted in "failed" and the loop goes on
delete_backup_collections(db, to_delete, dry_run, drop_fails) ==
  IF dry_run THEN db ELSE db \ (to_delete \ drop_fails)

InitCleanBackups ==
  /\ CorpusOnly
  /\ agendas = {}
  /\ events = {}
  /\ \E db \in SUBSET CollectionNames :
       snap = [db |-> db, dry_run |-> FALSE, force |-> FALSE,
               response |-> "", asked |-> FALSE, deleted |-> 0, failed |-> 0]
  /\ proc = [NoProc EXCEPT !.pc = "clean_backups"]

\* main of clean_backups.py, from the arguments to the summary
clean_backups_main ==
  /\ proc.pc = "clean_backups"
  /\ \E dry_run \in BOOLEAN, force \in BOOLEAN, answer \in Responses,
        connected \in BOOLEAN, drop_fails \in SUBSET snap.db :
       LET listed == list_backup_collections(snap.db)
           asked == connected /\ listed # {} /\ ~dry_run /\ ~force
           proceed == /\ connected
                      /\ listed # {}
                      /\ ~dry_run
                      /\ force \/ confirm_deletion(answer)
           db == IF proceed
                   THEN delete_backup_collections(snap.db, listed, FALSE,
                                                  drop_fails)
                   ELSE snap.db
       IN /\ snap' = [db |-> db, dry_run |-> dry_run, force |-> force,
                      response |-> answer, asked |-> asked,
                      deleted |-> Cardinality(snap.db \ db),
                      failed |-> IF proceed
                                   THEN Cardinality(listed \cap drop_fails)
                                   ELSE 0]
          /\ proc' = exited(proc, IF connected THEN 0 ELSE 1, "")
  /\ UNCHANGED <<agendas, events>>
  /\ CorpusFrame

NextCleanBackups == clean_backups_main

SpecCleanBackups == InitCleanBackups /\ [][NextCleanBackups]_vars

\* the names of the statement: a suffix _backup_ or _update_, eight digits,
\* an underscore and six digits at the end of the name
HasBackupSuffix(name) ==
  \E prefix \in {<<>>, <<"agendas">>, <<"events">>, <<"last_update">>} :
  \E marker \in {"_backup_", "_update_"} :
    name = prefix \o <<marker, "d8", "_", "d6">>

\* C25: clean_backups.py drops a collection only if its name has the backup
\* suffix, the run is not a dry run, and --force was given or the user
\* answered yes; a dry run or a refusal drops nothing and the live
\* collections stay
C25_OnlyConfirmedBackupsDropped ==
  [][/\ \A c \in snap.db \ snap'.db :
          /\ HasBackupSuffix(c)
          /\ ~snap'.dry_run
          /\ \/ snap'.force
             \/ /\ snap'.asked
                /\ snap'.response \in {"oui", "o", "yes", "y", " OUI "}
     /\ snap'.db \subseteq snap.db
     /\ snap.db \cap LiveNames \subseteq snap'.db
    ]_vars

C25_Witness ==
  /\ proc.pc = "exited"
  /\ ~snap.force
  /\ snap.asked
  /\ snap.response = "oui"
  /\ snap.deleted = 2
  /\ snap.db = LiveNames \cup
       {<<"events", "_update_", "d8", "_", "d6", "_old">>,
        <<"events", "_update_", "d7", "_", "d6">>,
        <<"events", "_copy_", "d8", "_", "d6">>}


\* ---- vectors/vectors.py: the operations on an index, called in any order
VectorDocuments == SUBSET {<<1, 1>>, <<2, 1>>}

\* variant: the check of the list is missing, FAISS builds from nothing
create_vector_store_unchecked(documents, ok) ==
  IF ~ok
    THEN [raised |-> TRUE, value |-> NoIndex]
    ELSE [raised |-> FALSE, value |-> [build |-> 0, docs |-> documents]]

\* "if not documents: raise ValueError", then FAISS.from_documents, one
\* vector for each document; ok: the embeddings are computed
create_vector_store(documents, ok) ==
  IF documents = {} \/ ~ok
    THEN [raised |-> TRUE, value |-> NoIndex]
    ELSE [raised |-> FALSE, value |-> [build |-> 0, docs |-> documents]]

\* "if not documents: return vector_store", else add_documents
add_documents_to_vector_store(store, documents) ==
  IF documents = {} THEN store
  ELSE [store EXCEPT !.docs = @ \cup documents]

\* mkdir(parents=True, exist_ok=True) and save_local
save_vector_store(store, disk, outcome) ==
  CASE outcome = "ok" -> [state |-> "complete", index |-> store]
    [] outcome = "mkdir_fails" -> disk
    [] outcome = "write_fails" -> [state |-> "partial", index |-> NoIndex]

\* variant: a missing directory is an error
delete_vector_store_strict(disk, rmtree_ok) ==
  IF disk.state # "absent" /\ rmtree_ok
    THEN [raised |-> FALSE, disk |-> delete_vector_store(disk)]
    ELSE [raised |-> TRUE, disk |-> disk]

\* "if not path_obj.exists(): return", else shutil.rmtree(path), which may
\* raise and then leaves the directory
delete_vector_store_path(disk, rmtree_ok) ==
  IF disk.state = "absent"
    THEN [raised |-> FALSE, disk |-> disk]
    ELSE IF rmtree_ok
           THEN [raised |-> FALSE, disk |-> delete_vector_store(disk)]
           ELSE [raised |-> TRUE, disk |-> disk]

InitVectors ==
  /\ CorpusOnly
  /\ agendas = {}
  /\ events = {}
  /\ snap = [op |-> "none", documents |-> {}, raised |-> FALSE,
             existed |-> FALSE]
  /\ proc = [NoProc EXCEPT !.pc = "vectors"]

VectorsFrame ==
  UNCHANGED <<clock, rebuild_in_progress, rebuild_status, vector_store,
              ntasks, task, local, last_update, backups, response, agendas,
              events>>

Called(op, documents, raised) ==
  [op |-> op, documents |-> documents, raised |-> raised,
   existed |-> disk_index.state # "absent"]

vectors_create ==
  /\ \E documents \in VectorDocuments, ok \in BOOLEAN :
       LET result == create_vector_store(documents, ok)
       IN /\ proc' = IF result.raised THEN proc
                     ELSE [proc EXCEPT !.built = result.value]
          /\ snap' = Called("create", documents, result.raised)
  /\ UNCHANGED disk_index
  /\ VectorsFrame

vectors_add ==
  /\ proc.built # NoIndex
  /\ \E documents \in VectorDocuments :
       /\ proc' = [proc EXCEPT
                     !.built = add_documents_to_vector_store(@, documents)]
       /\ snap' = Called("add", documents, FALSE)
  /\ UNCHANGED disk_index
  /\ VectorsFrame

vectors_save ==
  /\ proc.built # NoIndex
  /\ \E outcome \in {"ok", "mkdir_fails", "write_fails"} :
       /\ disk_index' = save_vector_store(proc.built, disk_index, outcome)
       /\ snap' = Called("save", {}, outcome # "ok")
  /\ UNCHANGED proc
  /\ VectorsFrame

vectors_load ==
  /\ \E load_ok \in BOOLEAN :
       LET loaded == load_vector_store(disk_index, load_ok)
       IN /\ proc' = IF loaded.raised THEN proc
                     ELSE [proc EXCEPT !.built = loaded.value]
          /\ snap' = Called("load", {}, loaded.raised)
  /\ UNCHANGED disk_index
  /\ VectorsFrame

vectors_delete ==
  /\ \E rmtree_ok \in BOOLEAN :
       LET result == delete_vector_store_path(disk_index, rmtree_ok)
       IN /\ disk_index' = result.disk
          /\ snap' = Called("delete", {}, result.raised)
  /\ UNCHANGED proc
  /\ VectorsFrame

NextVectors ==
  \/ vectors_create
  \/ vectors_add
  \/ vectors_save
  \/ vectors_load
  \/ vectors_delete

SpecVectors == InitVectors /\ [][NextVectors]_vars

\* C26: create_vector_store raises on an empty list and builds nothing, and
\* no sequence of operations leaves an index without vectors in memory or on
\* disk
C26_NoEmptyIndex ==
  [][/\ (snap'.op = "create" /\ snap'.documents = {}) =>
          /\ snap'.raised
          /\ proc'.built = proc.built
          /\ disk_index' = disk_index
     /\ proc'.built # NoIndex => proc'.built.docs # {}
     /\ disk_index'.state = "complete" => disk_index'.index.docs # {}
    ]_vars

C26_Witness ==
  /\ snap.op = "create"
  /\ snap.documents = {}
  /\ snap.raised
  /\ disk_index.state = "complete"
  /\ proc.built.docs = {<<1, 1>>, <<2, 1>>}

\* C27: delete_vector_store on a missing path returns without raising and
\* changes nothing, so a second deletion has the effect of the first; when
\* it returns for an existing path the directory is gone
C27_DeleteIdempotent ==
  [][snap'.op = "delete" =>
       /\ disk_index.state = "absent" =>
            /\ ~snap'.raised
            /\ disk_index' = disk_index
            /\ proc' = proc
       /\ ~snap'.raised =>
            /\ disk_index'.state = "absent"
            /\ delete_vector_store_path(disk_index', TRUE) =
                 [raised |-> FALSE, disk |-> disk_index']
    ]_vars

C27_Witness ==
  /\ snap.op = "delete"
  /\ ~snap.existed
  /\ ~snap.raised
  /\ disk_index.state = "absent"
  /\ proc.built # NoIndex


\* ---- pipeline.py run on its own: main, from its argument to the record
Arguments == {"none", "update", "recreate", "rebuild"}
\* OA_AGENDAS_UPDATED_AT_GTE in the environment: unset, or a date of .env
EnvDates == {NoTime, 1}
PipelineEvents ==
  {{}, {InitialEvent(0)},
   {InitialEvent(0),
    [uid |-> 2, agendaUid |-> 1, createdAt |-> 1, updatedAt |-> 1,
     longDescription |-> MIN_DESCRIPTION_LENGTH]}}

\* "today - 1 year": earlier than every date of the model
get_default_updated_date(now) == 0

\* variant: without a date of last execution the mode stays "update"
mode_after_lookup_keeps(mode, last_execution_date) == mode
\* "if last_execution_date: ... else: mode = 'recreate'"
mode_after_lookup(mode, last_execution_date) ==
  IF mode = "update" /\ last_execution_date = NoTime
    THEN "recreate"
    ELSE mode

InitPipeline ==
  /\ clock = FirstTick
  /\ rebuild_in_progress = FALSE
  /\ rebuild_status =
       [status |-> "idle", message |-> <<"Aucun rebuild en cours", "">>,
        started_at |-> NoTime, last_update_date |-> NoTime]
  /\ vector_store = NoIndex
  /\ disk_index \in {[state |-> "absent", index |-> NoIndex],
                     [state |-> "complete", index |-> InitialIndex]}
  /\ ntasks = 0
  /\ task = [i \in TaskIds |-> "unborn"]
  /\ local = NoLocal
  /\ proc = [NoProc EXCEPT !.pc = "main"]
  /\ last_update \in {<<>>, <<InitialRun>>}
  /\ agendas = {1}
  /\ events \in PipelineEvents
  /\ backups = [agendas |-> {}, events |-> {}]
  /\ \E argv \in Arguments, env \in EnvDates :
       snap = [argv |-> argv, mode |-> "", env |-> env,
               last_execution_date |-> NoTime]
  /\ response = NoResponse

\* main up to the call of create_vector_store_pipeline: the mode, the date
\* of last execution in "update" mode (None when the lookup raises), the
\* environment variable, and the date that the record of the run will carry
pipeline_main ==
  /\ proc.pc = "main"
  /\ \E mongo_ok \in BOOLEAN :
       LET mode == IF snap.argv = "none" THEN "recreate" ELSE snap.argv
           last_execution_date ==
             IF mode = "update" /\ mongo_ok
               THEN get_last_execution_date(last_update)
               ELSE NoTime
           resolved == mode_after_lookup(mode, last_execution_date)
           env == IF mode = "update" /\ last_execution_date # NoTime
                    THEN last_execution_date
                    ELSE snap.env
           updated_at_gte == IF env # NoTime THEN env
                             ELSE get_default_updated_date(clock)
           p == [proc EXCEPT !.ran = {"main"}]
       IN IF mode \notin {"update", "recreate"}
            THEN /\ proc' = exited(p, 1, "mode")
                 /\ snap' = [snap EXCEPT !.mode = mode]
            ELSE /\ proc' = [goto(p, "chunk") EXCEPT
                               !.watermark = updated_at_gte]
                 /\ snap' = [snap EXCEPT
                               !.mode = resolved, !.env = env,
                               !.last_execution_date = last_execution_date]
  /\ UNCHANGED <<clock, rebuild_in_progress, rebuild_status, vector_store,
                 ntasks, task, local, disk_index, last_update, agendas,
                 events, backups, response>>

NextPipeline ==
  \/ pipeline_main
  \/ pipeline_chunk
  \/ pipeline_delete
  \/ pipeline_build
  \/ pipeline_save
  \/ pipeline_metadata

SpecPipeline == InitPipeline /\ [][NextPipeline]_vars

MaxTextLen == 4
Alphabet == {"a", " ", "LF"}
Whitespace == {" ", "LF"}
Texts == UNION { [1..n -> Alphabet] : n \in 0..MaxTextLen }
\* pairs of chunk_size and chunk_overlap
SplitParameters == {<<2, 0>>, <<3, 1>>, <<4, 2>>}
Separators == << <<"LF", "LF">>, <<"LF">>, <<" ">>, <<>> >>

RECURSIVE lstrip(_)
lstrip(t) ==
  IF t # <<>> /\ Head(t) \in Whitespace THEN lstrip(Tail(t)) ELSE t

RECURSIVE rstrip(_)
rstrip(t) ==
  IF t # <<>> /\ t[Len(t)] \in Whitespace
    THEN rstrip(SubSeq(t, 1, Len(t) - 1))
    ELSE t

\* str.strip()
strip(t) == rstrip(lstrip(t))

RECURSIVE join(_)
join(pieces) ==
  IF pieces = <<>> THEN <<>> ELSE Head(pieces) \o join(Tail(pieces))

\* variant: strip_whitespace=False, the chunk is the joined text as it is
join_docs_keeps_whitespace(pieces) == <<join(pieces)>>

\* _join_docs: the pieces joined and stripped, None (no chunk) when nothing
\* is left
join_docs(pieces) ==
  LET text == strip(join(pieces))
  IN IF text = <<>> THEN <<>> ELSE <<text>>

starts_at(separator, t, i) ==
  /\ i + Len(separator) - 1 <= Len(t)
  /\ \A j \in 1..Len(separator) : t[i + j - 1] = separator[j]

\* re.search(separator, text)
re_search(separator, t) == \E i \in 1..Len(t) : starts_at(separator, t, i)

\* re.split with the separator captured and put back at the start of the
\* piece that follows it
RECURSIVE split_from(_, _, _, _, _)
split_from(t, separator, i, piece, pieces) ==
  IF i > Len(t) THEN Append(pieces, piece)
  ELSE IF starts_at(separator, t, i)
         THEN split_from(t, separator, i + Len(separator), separator,
                         Append(pieces, piece))
         ELSE split_from(t, separator, i + 1, Append(piece, t[i]), pieces)

\* _split_text_with_regex: list(text) for the empty separator, and the empty
\* pieces are dropped
split_text_with_regex(t, separator) ==
  LET pieces == IF separator = <<>>
                  THEN [i \in 1..Len(t) |-> <<t[i]>>]
                  ELSE split_from(t, separator, 1, <<>>, <<>>)
  IN SelectSeq(pieces, LAMBDA s : s # <<>>)

\* the "while" of _merge_splits: pieces leave the front of the current chunk
\* until the overlap is small enough and the next piece fits
RECURSIVE pop_front(_, _, _, _, _)
pop_front(current_doc, total, len, chunk_size, chunk_overlap) ==
  IF \/ total > chunk_overlap
     \/ (total + len > chunk_size /\ total > 0)
    THEN pop_front(Tail(current_doc), total - Len(Head(current_doc)), len,
                   chunk_size, chunk_overlap)
    ELSE [current_doc |-> current_doc, total |-> total]

\* _merge_splits with a separator of length 0
RECURSIVE merge_from(_, _, _, _, _, _, _)
merge_from(splits, k, docs, current_doc, total, chunk_size, chunk_overlap) ==
  IF k > Len(splits) THEN docs \o join_docs(current_doc)
  ELSE LET d == splits[k]
           flush == total + Len(d) > chunk_size /\ current_doc # <<>>
           kept == IF flush
                     THEN pop_front(current_doc, total, Len(d), chunk_size,
                                    chunk_overlap)
                     ELSE [current_doc |-> current_doc, total |-> total]
       IN merge_from(splits, k + 1,
                     IF flush THEN docs \o join_docs(current_doc) ELSE docs,
                     Append(kept.current_doc, d), kept.total + Len(d),
                     chunk_size, chunk_overlap)

merge_splits(splits, chunk_size, chunk_overlap) ==
  merge_from(splits, 1, <<>>, <<>>, 0, chunk_size, chunk_overlap)

\* the first separator that is empty or found in the text
separator_index(t, separators) ==
  LET found == { i \in 1..Len(separators) :
                   separators[i] = <<>> \/ re_search(separators[i], t) }
  IN IF found = {} THEN Len(separators)
     ELSE CHOOSE i \in found : \A j \in found : i <= j

\* _split_text: the pieces shorter than chunk_size are merged, a longer
\* piece is split again with the separators that follow
RECURSIVE split_text(_, _, _, _)
RECURSIVE split_pieces(_, _, _, _, _, _, _)
split_pieces(splits, k, good_splits, final_chunks, new_separators,
             chunk_size, chunk_overlap) ==
  IF k > Len(splits)
    THEN IF good_splits = <<>> THEN final_chunks
         ELSE final_chunks \o
                merge_splits(good_splits, chunk_size, chunk_overlap)
    ELSE LET s == splits[k]
         IN IF Len(s) < chunk_size
              THEN split_pieces(splits, k + 1, Append(good_splits, s),
                                final_chunks, new_separators, chunk_size,
                                chunk_overlap)
              ELSE LET merged ==
                         IF good_splits = <<>> THEN final_chunks
                         ELSE final_chunks \o
                                merge_splits(good_splits, chunk_size,
                                             chunk_overlap)
                       other ==
                         IF new_separators = <<>> THEN <<s>>
                         ELSE split_text(s, new_separators, chunk_size,
                                         chunk_overlap)
                   IN split_pieces(splits, k + 1, <<>>, merged \o other,
                                   new_separators, chunk_size, chunk_overlap)

split_text(t, separators, chunk_size, chunk_overlap) ==
  LET i == separator_index(t, separators)
      separator == separators[i]
      new_separators ==
        IF separator = <<>> THEN <<>>
        ELSE IF re_search(separator, t)
               THEN SubSeq(separators, i + 1, Len(separators))
               ELSE <<>>
  IN split_pieces(split_text_with_regex(t, separator), 1, <<>>, <<>>,
                  new_separators, chunk_size, chunk_overlap)

\* split_documents: one Document for each chunk, with a copy of the
\* metadata of the document it comes from
RECURSIVE split_documents_into_chunks(_, _, _)
split_documents_into_chunks(documents, chunk_size, chunk_overlap) ==
  IF documents = <<>> THEN <<>>
  ELSE LET doc == Head(documents)
           texts == split_text(doc.page_content, Separators, chunk_size,
                               chunk_overlap)
       IN [k \in DOMAIN texts |->
             [page_content |-> texts[k], metadata |-> doc.metadata]]
          \o split_documents_into_chunks(Tail(documents), chunk_size,
                                         chunk_overlap)

InitSplit ==
  /\ CorpusOnly
  /\ agendas = {}
  /\ events = {}
  /\ \E t \in Texts, parameters \in SplitParameters, title \in {1, 2} :
       snap = [documents |-> <<[page_content |-> t, metadata |-> title]>>,
               chunk_size |-> parameters[1], chunk_overlap |-> parameters[2],
               chunks |-> <<>>]
  /\ proc = [NoProc EXCEPT !.pc = "split"]

split_main ==
  /\ proc.pc = "split"
  /\ snap' = [snap EXCEPT
                !.chunks = split_documents_into_chunks(snap.documents,
                                                       snap.chunk_size,
                                                       snap.chunk_overlap)]
  /\ proc' = exited([proc EXCEPT !.ran = {"split"}], 0, "")
  /\ UNCHANGED <<agendas, events>>
  /\ CorpusFrame

NextSplit == split_main

SpecSplit == InitSplit /\ [][NextSplit]_vars

Split == proc.ran = {"split"}
ShortDocument == Len(snap.documents[1].page_content) <= snap.chunk_size
MetadataKept ==
  \A k \in DOMAIN snap.chunks :
    snap.chunks[k].metadata = snap.documents[1].metadata

\* C30 as stated: a document no longer than chunk_size gives one chunk, its
\* whole text, and every chunk has the metadata of its document
C30_ShortDocumentIsOneWholeChunk ==
  Split =>
    /\ MetadataKept
    /\ ShortDocument =>
         /\ Len(snap.chunks) = 1
         /\ snap.chunks[1].page_content = snap.documents[1].page_content

\* C30: a document no longer than chunk_size gives one chunk, its text
\* without the whitespace at its two ends, or no chunk when nothing but
\* whitespace is in it; every chunk of any document has the metadata of
\* that document and a text of at most chunk_size characters that is not
\* empty
C30_ShortDocumentIsOneStrippedChunk ==
  Split =>
    /\ MetadataKept
    /\ \A k \in DOMAIN snap.chunks :
         /\ snap.chunks[k].page_content # <<>>
         /\ Len(snap.chunks[k].page_content) <= snap.chunk_size
    /\ ShortDocument =>
         LET text == snap.documents[1].page_content
             kept == { i \in 1..Len(text) : text[i] \notin Whitespace }
         IN IF kept = {}
              THEN snap.chunks = <<>>
              ELSE /\ Len(snap.chunks) = 1
                   /\ snap.chunks[1].page_content =
                        SubSeq(text,
                               CHOOSE i \in kept : \A j \in kept : i <= j,
                               CHOOSE i \in kept : \A j \in kept : i >= j)

C30_Witness ==
  /\ Split
  /\ snap.chunk_size = 4
  /\ snap.documents[1].page_content = <<"a", " ", "a", "LF">>
  /\ Len(snap.chunks) = 1
  /\ snap.chunks[1].page_content = <<"a", " ", "a">>
  /\ snap.chunks[1].metadata = snap.documents[1].metadata


\* ---- embeddings/embeddings.py: E5Embeddings.average_pool
\* one sequence of the batch: seq_len positions, each a hidden vector of two
\* components; a quotient of floats is kept as numerator and denominator
MaxSeqLen == 3
TokenVectors == {<<1, 2>>, <<3, 4>>, <<0, 0>>, <<5, -7>>}
HiddenStates == [1..MaxSeqLen -> TokenVectors]
\* the masks of a tokenizer: 0 or 1, at least one token
AttentionMasks == { m \in [1..MaxSeqLen -> {0, 1}] : \E i \in 1..MaxSeqLen : m[i] = 1 }

\* variant: the hidden states are summed as they are
masked_fill_nothing(last_hidden_states, attention_mask) == last_hidden_states
\* masked_fill(~attention_mask[..., None].bool(), 0.0)
masked_fill(last_hidden_states, attention_mask) ==
  [i \in DOMAIN last_hidden_states |->
     IF attention_mask[i] # 0
       THEN last_hidden_states[i]
       ELSE [d \in DOMAIN last_hidden_states[i] |-> 0]]

\* sum(dim=1) of a sequence of numbers
RECURSIVE sum(_)
sum(xs) == IF xs = <<>> THEN 0 ELSE Head(xs) + sum(Tail(xs))

average_pool(last_hidden_states, attention_mask) ==
  LET last_hidden == masked_fill(last_hidden_states, attention_mask)
      num_tokens == sum(attention_mask)
  IN [d \in 1..2 |->
        [num |-> sum([i \in DOMAIN last_hidden |-> last_hidden[i][d]]),
         den |-> num_tokens]]

InitPool ==
  /\ CorpusOnly
  /\ agendas = {}
  /\ events = {}
  /\ \E last_hidden_states \in HiddenStates, attention_mask \in AttentionMasks :
       snap = [last_hidden_states |-> last_hidden_states,
               attention_mask |-> attention_mask, result |-> <<>>]
  /\ proc = [NoProc EXCEPT !.pc = "pool"]

pool_main ==
  /\ proc.pc = "pool"
  /\ snap' = [snap EXCEPT
                !.result = average_pool(snap.last_hidden_states,
                                        snap.attention_mask)]
  /\ proc' = exited([proc EXCEPT !.ran = {"pool"}], 0, "")
  /\ UNCHANGED <<agendas, events>>
  /\ CorpusFrame

NextPool == pool_main

SpecPool == InitPool /\ [][NextPool]_vars

\* the sum of component d over a set of positions
RECURSIVE SumOver(_, _, _)
SumOver(positions, states, d) ==
  IF positions = {} THEN 0
  ELSE LET i == CHOOSE i \in positions : TRUE
       IN states[i][d] + SumOver(positions \ {i}, states, d)

\* C31: average_pool gives, for a sequence, the sum of the hidden vectors at
\* the positions of mask 1 divided by the number of these positions, and the
\* hidden values at the positions of mask 0 do not change the result
C31_MaskedMean ==
  proc.ran = {"pool"} =>
    LET valid == { i \in 1..MaxSeqLen : snap.attention_mask[i] = 1 }
    IN /\ \A d \in 1..2 :
            /\ snap.result[d].num = SumOver(valid, snap.last_hidden_states, d)
            /\ snap.result[d].den = Cardinality(valid)
       /\ \A i \in (1..MaxSeqLen) \ valid : \A v \in TokenVectors :
            average_pool([snap.last_hidden_states EXCEPT ![i] = v],
                         snap.attention_mask) = snap.result

C31_Witness ==
  /\ proc.ran = {"pool"}
  /\ \A i \in 1..MaxSeqLen :
       /\ snap.last_hidden_states[i] =
            IF i = 1 THEN <<1, 2>> ELSE IF i = 2 THEN <<3, 4>> ELSE <<5, -7>>
       /\ snap.attention_mask[i] = IF i <= 2 THEN 1 ELSE 0
  /\ snap.result[1].num = 2 * snap.result[1].den
  /\ snap.result[2].num = 3 * snap.result[2].den


MaxElapsed == 2
Version(e) == <<e.uid, e.updatedAt>>

InitIncremental ==
  /\ clock = FirstTick
  /\ rebuild_in_progress = FALSE
  /\ rebuild_status =
       [status |-> "idle", message |-> <<"Aucun rebuild en cours", "">>,
        started_at |-> NoTime, last_update_date |-> NoTime]
  /\ vector_store = InitialIndex
  /\ disk_index = [state |-> "complete", index |-> InitialIndex]
  /\ ntasks = 0
  /\ task = [i \in TaskIds |-> "unborn"]
  /\ local = NoLocal
  /\ proc = [NoProc EXCEPT !.pc = "idle"]
  /\ last_update = <<InitialRun>>
  /\ agendas = {1}
  /\ events \in {{InitialEvent(0)}, {InitialEvent(TicksPerSecond)}}
  /\ backups = [agendas |-> {}, events |-> {}]
  /\ snap = [upstream |-> events, ingested |-> { Version(e) : e \in events },
             during |-> {}, pending |-> {}, runs |-> 0]
  /\ response = NoResponse

IncrementalFrame ==
  UNCHANGED <<rebuild_in_progress, vector_store, disk_index, ntasks, task,
              local, backups, response>>

Elapse ==
  /\ clock < FirstTick + MaxElapsed
  /\ clock' = clock + 1
  /\ UNCHANGED <<rebuild_status, proc, last_update, agendas, events, snap>>
  /\ IncrementalFrame

\* upstream: an event is created, or an existing one is updated, now
upstream_change ==
  /\ \E uid \in EventUIDs :
       LET old == { e \in snap.upstream : e.uid = uid }
           new == IF old = {}
                    THEN {[uid |-> uid, agendaUid |-> 1, createdAt |-> clock,
                           updatedAt |-> clock,
                           longDescription |-> MIN_DESCRIPTION_LENGTH]}
                    ELSE { [e EXCEPT !.updatedAt = clock] : e \in old }
       IN /\ new # old
          /\ snap' = [snap EXCEPT
                        !.upstream = (@ \ old) \cup new,
                        !.during = IF proc.pc = "pipeline"
                                     THEN @ \cup { Version(e) : e \in new }
                                     ELSE @]
  /\ UNCHANGED <<clock, rebuild_status, proc, last_update, agendas, events>>
  /\ IncrementalFrame

\* POST /rebuild and the check of run_rebuild_pipeline on the collection of
\* events: "warning" without a run, or the launch of update_pipeline.py
rebuild_trigger ==
  /\ proc.pc = "idle"
  /\ snap.runs < MaxRuns
  /\ LET W == get_last_execution_date(last_update)
         count == count_new_events(events, W)
     IN IF W # NoTime /\ no_new_events(count)
          THEN /\ rebuild_status' =
                    [rebuild_status EXCEPT !.status = "warning",
                                           !.last_update_date = W]
               /\ UNCHANGED proc
          ELSE /\ rebuild_status' =
                    [rebuild_status EXCEPT !.status = "running",
                                           !.last_update_date = W]
               /\ proc' = [proc EXCEPT !.pc = "backup", !.watermark = W,
                                       !.ran = {"api"}]
  /\ snap' = [snap EXCEPT !.runs = @ + 1]
  /\ UNCHANGED <<clock, last_update, agendas, events>>
  /\ IncrementalFrame

\* update_pipeline.py run from the command line: no check of the collection
update_pipeline_direct ==
  /\ proc.pc = "idle"
  /\ snap.runs < MaxRuns
  /\ LET W == get_last_execution_date(last_update)
     IN /\ has_watermark(W)
        /\ proc' = [proc EXCEPT !.pc = "backup", !.watermark = W,
                                !.ran = {"cli"}]
  /\ snap' = [snap EXCEPT !.runs = @ + 1]
  /\ UNCHANGED <<clock, rebuild_status, last_update, agendas, events>>
  /\ IncrementalFrame

\* [2/8] the two collections are archived
run_backup ==
  /\ proc.pc = "backup"
  /\ agendas' = {}
  /\ events' = {}
  /\ proc' = goto(proc, "agendas")
  /\ UNCHANGED <<clock, rebuild_status, last_update, snap>>
  /\ IncrementalFrame

\* [3/8] the agendas updated since the date of last execution
run_agendas ==
  /\ proc.pc = "agendas"
  /\ agendas' =
       IF /\ snap.upstream # {}
          /\ Max({ e.updatedAt : e \in snap.upstream }) >= proc.watermark
         THEN {1}
         ELSE {}
  /\ proc' = goto(proc, "events")
  /\ UNCHANGED <<clock, rebuild_status, last_update, events, snap>>
  /\ IncrementalFrame

\* [4/8] the events of the agendas stored, through the date filter
run_events ==
  /\ proc.pc = "events"
  /\ LET fetched == IF agendas = {} THEN {}
                    ELSE { e \in snap.upstream :
                             should_include_event(e, proc.watermark) }
     IN /\ events' = IF fetched = {} THEN events
                     ELSE upsert_events(events, SetToSeq(fetched))
        /\ snap' = [snap EXCEPT
                      !.ingested = @ \cup { Version(e) : e \in fetched }]
  /\ proc' = goto(proc, "pipeline")
  /\ UNCHANGED <<clock, rebuild_status, last_update, agendas>>
  /\ IncrementalFrame

\* [5/8] to [8/8]: no chunk, no index and no record; otherwise the index is
\* built and the record of the run is written with the time of its end
run_pipeline ==
  /\ proc.pc = "pipeline"
  /\ LET chunks == process_events_to_chunks(events)
         api == "api" \in proc.ran
         run == [pipeline_run_date |-> clock,
                 agendas_updated_at_gte |-> proc.watermark,
                 total_events_processed |-> Cardinality(events),
                 total_chunks_created |-> Cardinality(chunks)]
     IN IF chunks_valid(chunks)
          THEN /\ last_update' = save_last_update_metadata(last_update, run)
               /\ rebuild_status' =
                    IF api THEN [rebuild_status EXCEPT !.status = "success"]
                    ELSE rebuild_status
               /\ snap' = [snap EXCEPT !.pending = @ \cup snap.during,
                                       !.during = {}]
          ELSE /\ UNCHANGED last_update
               /\ rebuild_status' =
                    IF api THEN [rebuild_status EXCEPT !.status = "error"]
                    ELSE rebuild_status
               /\ snap' = [snap EXCEPT !.during = {}]
  /\ proc' = [NoProc EXCEPT !.pc = "idle"]
  /\ UNCHANGED <<clock, agendas, events>>
  /\ IncrementalFrame

NextIncremental ==
  \/ Elapse
  \/ upstream_change
  \/ rebuild_trigger
  \/ update_pipeline_direct
  \/ run_backup
  \/ run_agendas
  \/ run_events
  \/ run_pipeline

SpecIncremental == InitIncremental /\ [][NextIncremental]_vars

\* C33: a rebuild triggered while the catalog holds an event created or
\* updated since the date of last execution is not cancelled with "warning"
C33_UpstreamChangeStartsRun ==
  [][(proc.pc = "idle" /\ proc'.pc = "idle" /\ snap'.runs = snap.runs + 1) =>
       ~ \E e \in snap.upstream :
           \/ e.createdAt >= get_last_execution_date(last_update)
           \/ e.updatedAt >= get_last_execution_date(last_update)
    ]_vars

\* C34: when a run succeeds, every event whose current version appeared
\* upstream while an earlier successful run was between its fetch and its
\* record has been fetched
C34_NoChangeSkipped ==
  [][(proc.pc = "pipeline" /\ last_update' # last_update) =>
       \A e \in snap.upstream :
         Version(e) \in snap.pending => Version(e) \in snap.ingested
    ]_vars


\* C38: after a call of backup_and_clear_for_update that returned, the two
\* live collections hold no document
C38_ReturnedMeansCleared ==
  [][(snap'.calls = snap.calls + 1 /\ snap'.returned) =>
       /\ agendas' = {}
       /\ events' = {}
    ]_vars


\* C36: whenever the status is 'running' the flag rebuild_in_progress is
\* set, and no answer of GET /rebuild/status has status 'running' with
\* in_progress false
C36_RunningImpliesInProgress ==
  /\ rebuild_status.status = "running" => rebuild_in_progress
  /\ (response.endpoint = "status" /\ response.status = "running")
       => response.in_progress

\* a status query answered while the run awaits its subprocess
C36_Witness ==
  /\ response.endpoint = "status"
  /\ response.status = "running"
  /\ response.in_progress
  /\ rebuild_status.status = "running"
  /\ \E i \in TaskIds : task[i] = "awaiting"


\* ---- update_pipeline.py run on a collection that holds an event the
\* upstream API does not return any more (it is no longer upcoming)
PastEvent ==
  [uid |-> 3, agendaUid |-> 1, createdAt |-> 0, updatedAt |-> 0,
   longDescription |-> MIN_DESCRIPTION_LENGTH]
IndexedEvents ==
  {{InitialEvent(0)}, {PastEvent}, {InitialEvent(0), PastEvent}}

\* the state a successful run left: the index on disk was built from the
\* events of the collection
InitIndex ==
  /\ clock = FirstTick
  /\ rebuild_in_progress = FALSE
  /\ rebuild_status =
       [status |-> "idle", message |-> <<"Aucun rebuild en cours", "">>,
        started_at |-> NoTime, last_update_date |-> NoTime]
  /\ events \in IndexedEvents
  /\ disk_index =
       [state |-> "complete",
        index |-> [build |-> 0, docs |-> process_events_to_chunks(events)]]
  /\ vector_store = disk_index.index
  /\ ntasks = 0
  /\ task = [i \in TaskIds |-> "unborn"]
  /\ local = NoLocal
  /\ proc = [NoProc EXCEPT !.pc = "check"]
  /\ last_update = <<InitialRun>>
  /\ agendas = {1}
  /\ backups = [agendas |-> {}, events |-> {}]
  /\ snap = Snapshot
  /\ response = NoResponse

NextIndex ==
  \/ update_check
  \/ update_backup
  \/ update_agendas
  \/ update_events
  \/ update_dedup
  \/ update_clean
  \/ pipeline_chunk
  \/ pipeline_delete
  \/ pipeline_build
  \/ pipeline_save
  \/ pipeline_metadata

SpecIndex == InitIndex /\ [][NextIndex]_vars

NamePieces ==
  {"agendas", "events", "last_update", "_", "_old", "_update_", "_backup_",
   "d8", "d6"}
\* the names of one or two pieces, and names that are themselves the name
\* of a backup; MongoDB accepts no empty name
ArchivedNames ==
  { <<p>> : p \in NamePieces } \cup
  { <<p, q>> : p \in NamePieces, q \in NamePieces } \cup
  { c \in CollectionNames : Len(c) > 2 }

\* now.strftime("%Y%m%d_%H%M%S"): eight digits, "_", six digits
get_backup_timestamp(now) == <<"d8", "_", "d6">>

\* f"{collection_name}{backup_suffix}" with the suffix "_update_<ts>" of
\* backup_and_clear_for_update or "_backup_<ts>" of cleanup_mongodb
backup_name(collection_name, suffix, ts) == collection_name \o <<suffix>> \o ts

UnknownInfo ==
  [original_name |-> <<"unknown">>, type |-> "unknown",
   date |-> <<"unknown">>, timestamp |-> <<"unknown">>]

\* the groups of a match that ends at piece k + 3 and starts with the
\* suffix at piece k
backup_info_at(collection_name, k) ==
  [original_name |-> SubSeq(collection_name, 1, k - 1),
   type |-> IF collection_name[k] = "_backup_" THEN "backup" ELSE "update",
   date |-> <<"d2", "/", "d2", "/", "d4", " ", "d2", ":", "d2", ":", "d2">>,
   timestamp |-> SubSeq(collection_name, k + 1, k + 3)]

\* variant: the pattern without its "$" and with a lazy first group, the
\* first suffix of the name is taken
extract_backup_info_first(collection_name) ==
  LET at == { k \in 2..Len(collection_name) :
                /\ k + 3 <= Len(collection_name)
                /\ collection_name[k] \in {"_backup_", "_update_"}
                /\ collection_name[k + 1] = "d8"
                /\ collection_name[k + 2] = "_"
                /\ collection_name[k + 3] = "d6" }
  IN IF at = {} THEN UnknownInfo
     ELSE backup_info_at(collection_name,
                         CHOOSE k \in at : \A j \in at : k <= j)

\* re.match of r"(.+)_(backup|update)_(\d{8})_(\d{6})$": the first group is
\* not empty and the suffix ends the name
extract_backup_info(collection_name) ==
  LET n == Len(collection_name)
  IN IF /\ n >= 5
        /\ collection_name[n - 3] \in {"_backup_", "_update_"}
        /\ collection_name[n - 2] = "d8"
        /\ collection_name[n - 1] = "_"
        /\ collection_name[n] = "d6"
       THEN backup_info_at(collection_name, n - 3)
       ELSE UnknownInfo

InitNames ==
  /\ CorpusOnly
  /\ agendas = {}
  /\ events = {}
  /\ \E n \in ArchivedNames :
       snap = [n |-> n, suffix |-> "", ts |-> <<>>, name |-> <<>>,
               is_backup |-> FALSE, info |-> UnknownInfo]
  /\ proc = [NoProc EXCEPT !.pc = "names"]

\* the collection n is archived, and clean_backups.py reads the new name
archive_and_inspect ==
  /\ proc.pc = "names"
  /\ \E suffix \in {"_update_", "_backup_"} :
       LET ts == get_backup_timestamp(clock)
           name == backup_name(snap.n, suffix, ts)
       IN snap' = [snap EXCEPT !.suffix = suffix, !.ts = ts, !.name = name,
                               !.is_backup = is_backup_collection(name),
                               !.info = extract_backup_info(name)]
  /\ proc' = goto(proc, "inspected")
  /\ UNCHANGED <<agendas, events>>
  /\ CorpusFrame

\* clean_backups.py reads the name of a live collection
inspect_live ==
  /\ proc.pc = "names"
  /\ \E live \in LiveNames :
       snap' = [snap EXCEPT !.name = live,
                            !.is_backup = is_backup_collection(live),
                            !.info = extract_backup_info(live)]
  /\ proc' = goto(proc, "live")
  /\ UNCHANGED <<agendas, events>>
  /\ CorpusFrame

NextNames ==
  \/ archive_and_inspect
  \/ inspect_live

SpecNames == InitNames /\ [][NextNames]_vars

\* C39: the name given to the archive of any collection n is recognised as
\* a backup, and the name n, the type and the timestamp are read back from
\* it; the names of the three live collections are not recognised
C39_ArchiveNamesRoundTrip ==
  /\ proc.pc = "inspected" =>
       /\ snap.is_backup
       /\ snap.info.original_name = snap.n
       /\ snap.info.type = (IF snap.suffix = "_update_" THEN "update"
                            ELSE "backup")
       /\ snap.info.timestamp = snap.ts
  /\ proc.pc = "live" =>
       /\ ~snap.is_backup
       /\ snap.info = UnknownInfo

\* the collection archived is itself a backup
C39_Witness ==
  /\ proc.pc = "inspected"
  /\ snap.n = <<"events", "_update_", "d8", "_", "d6">>
  /\ snap.suffix = "_backup_"
  /\ snap.is_backup
  /\ snap.info.original_name = snap.n
  /\ snap.info.type = "backup"


\* ---- the rebuild under fair scheduling: the event loop runs every task
\* that is scheduled or whose subprocess has ended, and the subprocess,
\* whose calls return, takes its next step
Fairness ==
  /\ \A i \in TaskIds : WF_vars(run_rebuild_pipeline_start(i))
  /\ \A i \in TaskIds : WF_vars(run_rebuild_pipeline_finish(i))
  /\ WF_vars(update_check)
  /\ WF_vars(update_backup)
  /\ WF_vars(update_agendas)
  /\ WF_vars(update_events)
  /\ WF_vars(update_dedup)
  /\ WF_vars(update_clean)
  /\ WF_vars(pipeline_chunk)
  /\ WF_vars(pipeline_delete)
  /\ WF_vars(pipeline_build)
  /\ WF_vars(pipeline_save)
  /\ WF_vars(pipeline_metadata)

FairSpec == Spec /\ Fairness

\* C35: every trigger that was accepted leads to a state in which its run
\* has returned, the status is terminal and the flag is released; and a
\* trigger received while the flag is released is answered "started"
C35_AcceptedTriggerTerminates ==
  /\ \A i \in TaskIds :
       (task[i] = "scheduled") ~>
         (/\ task[i] = "done"
          /\ local.owner = i
          /\ rebuild_status.status \in Terminal
          /\ ~rebuild_in_progress)
  /\ [][(response'.endpoint = "rebuild" /\ ~rebuild_in_progress)
          => /\ response'.status = "started"
             /\ rebuild_in_progress']_vars

\* the second trigger is accepted once the first run has returned
C35_Witness ==
  /\ ntasks = 2
  /\ task[1] = "done"
  /\ task[2] = "scheduled"
  /\ response.endpoint = "rebuild"
  /\ response.status = "started"
  /\ rebuild_status.status \in Terminal

====
